---- MODULE Spec2Model ----
(***************************************************************************)
(* Verification model of the PennyLane Code Camp 2022 notebooks:           *)
(*   - the four-term parameter-shift gradient (src/unnamed/part_000),      *)
(*   - the bitflip fidelity notebook (src/unnamed/part_001),               *)
(*   - the U3/CNOT and H/T/CNOT universality notebooks (src/ipynb),        *)
(*   - the driver loop every notebook ends with.                           *)
(*                                                                         *)
(* Gate matrices, unitaries and density matrices are computed exactly in   *)
(* the ring Q[sqrt 2, i]: angles are integer multiples of pi/2 and         *)
(* probabilities are integer multiples of 1/ProbDen.                       *)
(***************************************************************************)
EXTENDS Integers, Sequences, FiniteSets, TLC

VARIABLES
    job,        \* circuit machine: the quantum function being executed
    tape,       \* circuit machine: operations queued so far
    qpc,        \* circuit machine: "queue" | "apply" | "done"
    kk,         \* circuit machine: number of queued operations already applied
    mat,        \* circuit machine: accumulated unitary / density matrix
    probs,      \* fidelities: the input list
    fids,       \* fidelities: the list built so far
    fpc,        \* fidelities: "idle" | "loop" | "returned"
    params,     \* my_parameter_shift_grad: the list it was given, shifted in place
    params0,    \* my_parameter_shift_grad: the list as it was at the call
    gradient,   \* my_parameter_shift_grad: the gradient array
    tmp,        \* my_parameter_shift_grad: the c_2, s_2 term
    gi,         \* my_parameter_shift_grad: loop index i (counted from 1)
    gpc,        \* my_parameter_shift_grad: position in the function
    evals,      \* my_parameter_shift_grad: arguments of the circuit calls so far
    result,     \* my_parameter_shift_grad: the returned list
    fparams,    \* my_parameter_shift_grad: the floats params holds
    fevals,     \* my_parameter_shift_grad: the floats of the circuit calls so far
    nb,         \* driver: the notebook whose last cell is running
    test_cases, \* driver: the notebook's test_cases
    ti,         \* driver: the loop's i (counted from 1)
    dpc,        \* driver: "for" | "try" | "run" | "else" | "done" | "aborted"
    matrix,     \* driver: run's local variable matrix (universality notebooks)
    output,     \* driver: the string run returned
    stdout,     \* driver: the lines printed so far
    calls,      \* driver: what run and check did, per test case
    uncaught,   \* driver: the exception that ended the cell, or "none"
    distance,           \* extrapolation: d
    scale_factors,      \* extrapolation: the list of scale factors
    qnodes,             \* extrapolation: <<qnode_ideal>> \o qnodes_mitigated
    zpc,                \* extrapolation: position in the function
    routine,            \* extrapolation: number of the VQE routine in progress
    param,              \* VQE: the parameter being optimized
    iters,              \* VQE: iterations of the loop done
    routines,           \* extrapolation: the VQE routines started so far
    ideal_energy,       \* extrapolation: VQE(qnode_ideal), rounded
    mitigated_energies, \* extrapolation: the list built so far
    energies            \* extrapolation: the returned list

vars == <<job, tape, qpc, kk, mat, probs, fids, fpc,
          params, params0, gradient, tmp, gi, gpc, evals, result, fparams, fevals,
          nb, test_cases, ti, dpc, matrix, output, stdout, calls, uncaught,
          distance, scale_factors, qnodes, zpc, routine, param, iters, routines,
          ideal_energy, mitigated_energies, energies>>

circVars == <<job, tape, qpc, kk, mat>>
fidVars  == <<probs, fids, fpc>>
gradVars == <<params, params0, gradient, tmp, gi, gpc, evals, result, fparams, fevals>>
drvVars  == <<nb, test_cases, ti, dpc, matrix, output, stdout, calls, uncaught>>
zneVars  == <<distance, scale_factors, qnodes, zpc, routine, param, iters, routines,
              ideal_energy, mitigated_energies, energies>>

(***************************************************************************)
(* Bounds of the model.                                                    *)
(***************************************************************************)
\* probabilities are k/ProbDen, k \in 0..ProbDen
ProbDen == 20
\* longest probs list given to fidelities
MaxProbs == 2
\* gate angles on the grid are k*pi/2, k \in 0..AngleMax
AngleMax == 3
\* longest test_cases list given to the driver
MaxCases == 2

(***************************************************************************)
(* Exact numbers: <<a, b, c, d, n>> is (a + b*sqrt2 + i*(c + d*sqrt2)) / n  *)
(* with n > 0 and gcd(a, b, c, d, n) = 1.                                  *)
(***************************************************************************)
Abs(x) == IF x < 0 THEN -x ELSE x

RECURSIVE GCD(_, _)
GCD(x, y) == IF y = 0 THEN x ELSE GCD(y, x % y)

NNorm(a, b, c, d, n) ==
    LET g == GCD(GCD(GCD(GCD(n, Abs(a)), Abs(b)), Abs(c)), Abs(d))
    IN  <<a \div g, b \div g, c \div g, d \div g, n \div g>>

NZero == <<0, 0, 0, 0, 1>>
NOne  == <<1, 0, 0, 0, 1>>
NRat(p, q) == NNorm(p, 0, 0, 0, q)
\* 1/sqrt2 = sqrt2/2
NInvSqrt2 == <<0, 1, 0, 0, 2>>
NImag == <<0, 0, 1, 0, 1>>

NNeg(x) == <<-x[1], -x[2], -x[3], -x[4], x[5]>>
NConj(x) == <<x[1], x[2], -x[3], -x[4], x[5]>>
NReal(x) == <<x[1], x[2], 0, 0, x[5]>>

NAdd(x, y) ==
    IF x = NZero THEN y
    ELSE IF y = NZero THEN x
    ELSE NNorm(x[1] * y[5] + y[1] * x[5], x[2] * y[5] + y[2] * x[5],
               x[3] * y[5] + y[3] * x[5], x[4] * y[5] + y[4] * x[5],
               x[5] * y[5])

NMul(x, y) ==
    IF x = NZero \/ y = NZero THEN NZero
    ELSE IF x = NOne THEN y
    ELSE IF y = NOne THEN x
    ELSE NNorm(x[1] * y[1] + 2 * x[2] * y[2] - x[3] * y[3] - 2 * x[4] * y[4],
               x[1] * y[2] + x[2] * y[1] - x[3] * y[4] - x[4] * y[3],
               x[1] * y[3] + 2 * x[2] * y[4] + x[3] * y[1] + 2 * x[4] * y[2],
               x[1] * y[4] + x[2] * y[3] + x[3] * y[2] + x[4] * y[1],
               x[5] * y[5])

(***************************************************************************)
(* Square matrices: M[r][c], rows and columns indexed from 0.              *)
(***************************************************************************)
Pow2(n) == IF n = 0 THEN 1 ELSE IF n = 1 THEN 2 ELSE IF n = 2 THEN 4 ELSE 8

Dim(M) == Cardinality(DOMAIN M)

RECURSIVE DotFrom(_, _, _, _, _)
DotFrom(A, B, r, c, k) ==
    IF k < 0 THEN NZero
    ELSE NAdd(NMul(A[r][k], B[k][c]), DotFrom(A, B, r, c, k - 1))

MatMul(A, B) ==
    [r \in DOMAIN A |-> [c \in DOMAIN A |-> DotFrom(A, B, r, c, Dim(A) - 1)]]

Dagger(A) == [r \in DOMAIN A |-> [c \in DOMAIN A |-> NConj(A[c][r])]]

MatAdd(A, B) == [r \in DOMAIN A |-> [c \in DOMAIN A |-> NAdd(A[r][c], B[r][c])]]

MatScale(s, A) == [r \in DOMAIN A |-> [c \in DOMAIN A |-> NMul(s, A[r][c])]]

MatReal(A) == [r \in DOMAIN A |-> [c \in DOMAIN A |-> NReal(A[r][c])]]

Identity(n) ==
    [r \in 0..(Pow2(n) - 1) |-> [c \in 0..(Pow2(n) - 1) |->
        IF r = c THEN NOne ELSE NZero]]

RECURSIVE TraceFrom(_, _)
TraceFrom(A, k) == IF k < 0 THEN NZero ELSE NAdd(A[k][k], TraceFrom(A, k - 1))

Trace(A) == TraceFrom(A, Dim(A) - 1)

(***************************************************************************)
(* Gate matrices of the library operations the notebooks use.  Angles are  *)
(* counted in units of pi/2.                                               *)
(***************************************************************************)
\* cos(k*pi/4) and sin(k*pi/4)
CosQ(k) ==
    LET m == k % 8
    IN  IF m = 0 THEN NOne
        ELSE IF m = 4 THEN NNeg(NOne)
        ELSE IF m \in {2, 6} THEN NZero
        ELSE IF m \in {1, 7} THEN NInvSqrt2
        ELSE NNeg(NInvSqrt2)

SinQ(k) == CosQ(k - 2)

\* exp(i*k*pi/2) = i^k
ExpI(k) ==
    LET m == k % 4
    IN  IF m = 0 THEN NOne
        ELSE IF m = 1 THEN NImag
        ELSE IF m = 2 THEN NNeg(NOne)
        ELSE NNeg(NImag)

Mat2(a, b, c, d) ==
    [r \in 0..1 |-> [s \in 0..1 |->
        IF r = 0 THEN (IF s = 0 THEN a ELSE b) ELSE (IF s = 0 THEN c ELSE d)]]

HadamardMatrix ==
    Mat2(NInvSqrt2, NInvSqrt2, NInvSqrt2, NNeg(NInvSqrt2))

\* T = diag(1, exp(i*pi/4))
TMatrix == Mat2(NOne, NZero, NZero, <<0, 1, 0, 1, 2>>)

PauliXMatrix == Mat2(NZero, NOne, NOne, NZero)

\* U3(theta, phi, delta)
U3Matrix(theta, phi, delta) ==
    Mat2(CosQ(theta), NNeg(NMul(ExpI(delta), SinQ(theta))),
         NMul(ExpI(phi), SinQ(theta)), NMul(ExpI(phi + delta), CosQ(theta)))

CNOTMatrix ==
    [r \in 0..3 |-> [c \in 0..3 |->
        IF (c < 2 /\ r = c) \/ (c = 2 /\ r = 3) \/ (c = 3 /\ r = 2)
        THEN NOne ELSE NZero]]

SWAPMatrix ==
    [r \in 0..3 |-> [c \in 0..3 |->
        IF (r = c /\ r \in {0, 3}) \/ (r = 1 /\ c = 2) \/ (r = 2 /\ c = 1)
        THEN NOne ELSE NZero]]

(***************************************************************************)
(* Operations and tapes.                                                   *)
(***************************************************************************)
Op(name, wires, args) == [name |-> name, wires |-> wires, params |-> args]

OpMatrix(op) ==
    IF op.name = "Hadamard" THEN HadamardMatrix
    ELSE IF op.name = "T" THEN TMatrix
    ELSE IF op.name = "CNOT" THEN CNOTMatrix
    ELSE IF op.name = "PauliX" THEN PauliXMatrix
    ELSE U3Matrix(op.params[1], op.params[2], op.params[3])

\* position (1-based) of wire w in a wire order
RECURSIVE PosFrom(_, _, _)
PosFrom(order, w, k) ==
    IF k > Len(order) THEN 0
    ELSE IF order[k] = w THEN k
    ELSE PosFrom(order, w, k + 1)

Pos(order, w) == PosFrom(order, w, 1)

\* bit of basis index idx at position pos of n wires (position 1 is the most
\* significant bit)
Bit(idx, pos, n) == (idx \div Pow2(n - pos)) % 2

\* index into the gate's own matrix: the bits of idx at the gate's wires
RECURSIVE SubIndex(_, _, _, _)
SubIndex(idx, ps, n, k) ==
    IF k > Len(ps) THEN 0
    ELSE Bit(idx, ps[k], n) * Pow2(Len(ps) - k) + SubIndex(idx, ps, n, k + 1)

\* the matrix of op expanded to the wires of order
Expand(op, order) ==
    LET n  == Len(order)
        ps == [k \in 1..Len(op.wires) |-> Pos(order, op.wires[k])]
        G  == OpMatrix(op)
        rest == {p \in 1..n : \A k \in 1..Len(ps) : ps[k] # p}
    IN  [r \in 0..(Pow2(n) - 1) |-> [c \in 0..(Pow2(n) - 1) |->
            IF \A p \in rest : Bit(r, p, n) = Bit(c, p, n)
            THEN G[SubIndex(r, ps, n, 1)][SubIndex(c, ps, n, 1)]
            ELSE NZero]]

\* wires of a tape in order of first appearance
RECURSIVE WiresFrom(_, _, _)
WiresFrom(ops, k, acc) ==
    IF k > Len(ops) THEN acc
    ELSE LET ws  == ops[k].wires
             new == SelectSeq(ws, LAMBDA w : Pos(acc, w) = 0)
         IN  WiresFrom(ops, k + 1, acc \o new)

TapeWires(ops) == WiresFrom(ops, 1, <<>>)

Rep(op, n) == [k \in 1..n |-> op]

(***************************************************************************)
(* The quantum functions of the notebooks, as the operations they queue.   *)
(***************************************************************************)
Hadamard(w) == Op("Hadamard", <<w>>, <<>>)
T(w) == Op("T", <<w>>, <<>>)
CNOT(c, t) == Op("CNOT", <<c, t>>, <<>>)
U3(theta, phi, delta, w) == Op("U3", <<w>>, <<theta, phi, delta>>)
BitFlip(p, w) == Op("BitFlip", <<w>>, <<p>>)

\* circuit() with the gate commented "H(1)" really a Hadamard
circuit_u3_H1 ==
    << U3(0, 0, 0, 0), U3(0, 0, 0, 1), U3(0, 0, 0, 2),
       U3(1, 0, 2, 1),
       U3(1, 0, 2, 1), CNOT(0, 1), U3(1, 0, 2, 1),
       U3(1, 0, 2, 2) >>

\* circuit() with the last Hadamard written as qml.Hadamard
circuit_u3_named ==
    << U3(0, 0, 0, 0), U3(0, 0, 0, 1), U3(0, 0, 0, 2),
       U3(0, 1, 1, 1),
       U3(1, 0, 2, 1), CNOT(0, 1), U3(1, 0, 2, 1),
       Hadamard(2) >>

\* (200pt) Universality - U3 and CNOT decomposition: circuit()
circuit_u3 ==
    << U3(0, 0, 0, 0), U3(0, 0, 0, 1), U3(0, 0, 0, 2),
       U3(0, 1, 1, 1),
       U3(1, 0, 2, 1), CNOT(0, 1), U3(1, 0, 2, 1),
       U3(1, 0, 2, 2) >>

\* U() with the last T-dagger one T short
U_short ==
    << Hadamard(0), Hadamard(1), CNOT(0, 1) >>
    \o << CNOT(0, 1), Hadamard(0), T(0) >>
    \o Rep(T(1), 7)
    \o << Hadamard(0), Hadamard(1), CNOT(0, 1), Hadamard(0), Hadamard(1) >>
    \o Rep(T(0), 6)
    \o << Hadamard(0), CNOT(0, 1) >>
    \o Rep(T(0), 6)
    \o Rep(T(1), 2)
    \o << Hadamard(0), Hadamard(1) >>

\* (500pt) Universality - H, T and CNOT decomposition: U()
U ==
    << Hadamard(0), Hadamard(1), CNOT(0, 1) >>
    \o << CNOT(0, 1), Hadamard(0), T(0) >>
    \o Rep(T(1), 7)
    \o << Hadamard(0), Hadamard(1), CNOT(0, 1), Hadamard(0), Hadamard(1) >>
    \o Rep(T(0), 7)
    \o << Hadamard(0), CNOT(0, 1) >>
    \o Rep(T(0), 6)
    \o Rep(T(1), 2)
    \o << Hadamard(0), Hadamard(1) >>

\* (500pt) Universality - H, T and CNOT decomposition: circuit()
circuit_htc ==
    << CNOT(0, 1), Hadamard(0), Hadamard(1) >>
    \o U
    \o << CNOT(1, 0) >>
    \o U
    \o << Hadamard(0), Hadamard(1) >>

\* the noise-free circuit without its CNOT
circuit_bell_product == <<Hadamard(0)>>

\* Differentiable ZNE - Noisy circuits: circuit()
circuit_bell == << Hadamard(0), CNOT(0, 1) >>

\* bitflip_circuit with both errors on wire 0
bitflip_circuit_wire0(p) ==
    << Hadamard(0), CNOT(0, 1), BitFlip(p, 0), BitFlip(p, 0) >>

\* bitflip_circuit with the error on wire 1 forgotten
bitflip_circuit_single(p) ==
    << Hadamard(0), CNOT(0, 1), BitFlip(p, 0) >>

\* Differentiable ZNE - Noisy circuits: bitflip_circuit(p), p counted in 1/ProbDen
bitflip_circuit(p) ==
    << Hadamard(0), CNOT(0, 1), BitFlip(p, 0), BitFlip(p, 1) >>

(***************************************************************************)
(* Executing a tape.                                                       *)
(*   qml.matrix: the product of the expanded operation matrices.           *)
(*   default.mixed: the density matrix, starting from |0..0><0..0|.        *)
(***************************************************************************)
\* one more operation multiplied into the unitary
MatrixStep(M, op, order) == MatMul(Expand(op, order), M)

\* |0..0><0..0| on n wires
BasisRho(n) ==
    [r \in 0..(Pow2(n) - 1) |-> [c \in 0..(Pow2(n) - 1) |->
        IF r = 0 /\ c = 0 THEN NOne ELSE NZero]]

Conjugate(G, rho) == MatMul(MatMul(G, rho), Dagger(G))

\* BitFlip(p): Kraus operators sqrt(1-p)*I and sqrt(p)*X
BitFlipChannel(rho, p, w, order) ==
    LET X == Expand(Op("PauliX", <<w>>, <<>>), order)
    IN  MatAdd(MatScale(NRat(ProbDen - p, ProbDen), rho),
               MatScale(NRat(p, ProbDen), Conjugate(X, rho)))

\* one more operation applied to the density matrix
MixedStep(rho, op, order) ==
    IF op.name = "BitFlip"
    THEN BitFlipChannel(rho, op.params[1], op.wires[1], order)
    ELSE Conjugate(Expand(op, order), rho)

RECURSIVE MixedFrom(_, _, _, _)
MixedFrom(rho, ops, order, k) ==
    IF k > Len(ops) THEN rho
    ELSE MixedFrom(MixedStep(rho, ops[k], order), ops, order, k + 1)

\* the qml.state() of a QNode on dev = default.mixed with wires=2
dev_mixed_wires == <<0, 1>>
MixedState(ops) == MixedFrom(BasisRho(Len(dev_mixed_wires)), ops, dev_mixed_wires, 1)

RECURSIVE MatrixFrom(_, _, _, _)
MatrixFrom(M, ops, order, k) ==
    IF k > Len(ops) THEN M
    ELSE MatrixFrom(MatrixStep(M, ops[k], order), ops, order, k + 1)

\* qml.matrix(fn)() with the given wire order
MatrixOf(ops, order) == MatrixFrom(Identity(Len(order)), ops, order, 1)

Names(ops) == [k \in 1..Len(ops) |-> ops[k].name]

(***************************************************************************)
(* The circuit machine: a quantum function queues its operations one by    *)
(* one, then the tape is executed operation by operation.                  *)
(***************************************************************************)
Probs == 0..ProbDen

Jobs ==
    { [fn |-> "circuit_u3", mode |-> "matrix", p |-> 0],
      [fn |-> "circuit_htc", mode |-> "matrix", p |-> 0],
      [fn |-> "U", mode |-> "tape", p |-> 0],
      [fn |-> "circuit_u3", mode |-> "tape", p |-> 0],
      [fn |-> "circuit_bell", mode |-> "state", p |-> 0] }
    \cup { [fn |-> "bitflip_circuit", mode |-> "state", p |-> p] : p \in Probs }

Body(j) ==
    IF j.fn = "circuit_u3" THEN circuit_u3
    ELSE IF j.fn = "circuit_htc" THEN circuit_htc
    ELSE IF j.fn = "U" THEN U
    ELSE IF j.fn = "circuit_bell" THEN circuit_bell
    ELSE bitflip_circuit(j.p)

\* qml.matrix of a quantum function orders the wires as the tape meets them;
\* of a QNode, as its device does (dev = default.qubit, wires=2)
WireOrder(j, ops) ==
    IF j.fn = "circuit_u3" THEN TapeWires(ops) ELSE <<0, 1>>

Idle == [fn |-> "none", mode |-> "none", p |-> 0]

CircInit ==
    /\ tape = <<>>
    /\ qpc = "queue"
    /\ kk = 0
    /\ mat = Identity(0)

CircIdle ==
    /\ job = Idle
    /\ tape = <<>>
    /\ qpc = "done"
    /\ kk = 0
    /\ mat = Identity(0)

Queue ==
    /\ qpc = "queue"
    /\ Len(tape) < Len(Body(job))
    /\ tape' = Append(tape, Body(job)[Len(tape) + 1])
    /\ UNCHANGED <<job, qpc, kk, mat>>

Execute ==
    /\ qpc = "queue"
    /\ Len(tape) = Len(Body(job))
    /\ qpc' = IF job.mode = "tape" THEN "done" ELSE "apply"
    /\ mat' = IF job.mode = "matrix" THEN Identity(Len(WireOrder(job, tape)))
              ELSE IF job.mode = "state" THEN BasisRho(Len(dev_mixed_wires))
              ELSE mat
    /\ UNCHANGED <<job, tape, kk>>

Apply ==
    /\ qpc = "apply"
    /\ kk < Len(tape)
    /\ kk' = kk + 1
    /\ mat' = IF job.mode = "matrix"
              THEN MatrixStep(mat, tape[kk + 1], WireOrder(job, tape))
              ELSE MixedStep(mat, tape[kk + 1], dev_mixed_wires)
    /\ UNCHANGED <<job, tape, qpc>>

Finish ==
    /\ qpc = "apply"
    /\ kk = Len(tape)
    /\ qpc' = "done"
    /\ UNCHANGED <<job, tape, kk, mat>>

FidIdle ==
    /\ probs = <<>>
    /\ fids = <<>>
    /\ fpc = "idle"

ZneIdle ==
    /\ distance = 0
    /\ scale_factors = <<>>
    /\ qnodes = <<>>
    /\ zpc = "idle"
    /\ routine = 0
    /\ param = 0
    /\ iters = 0
    /\ routines = <<>>
    /\ ideal_energy = 0
    /\ mitigated_energies = <<>>
    /\ energies = <<>>

GradIdle ==
    /\ params = <<>>
    /\ params0 = <<>>
    /\ gradient = <<>>
    /\ tmp = 0
    /\ gi = 0
    /\ gpc = "idle"
    /\ evals = <<>>
    /\ result = <<>>
    /\ fparams = <<>>
    /\ fevals = <<>>

NoString == [kind |-> "none", value |-> <<>>]

DrvIdle ==
    /\ nb = "none"
    /\ test_cases = <<>>
    /\ ti = 0
    /\ dpc = "done"
    /\ matrix = <<>>
    /\ output = NoString
    /\ stdout = <<>>
    /\ calls = <<>>
    /\ uncaught = "none"

InitCircuit ==
    /\ job \in Jobs
    /\ CircInit
    /\ FidIdle
    /\ GradIdle
    /\ DrvIdle
    /\ ZneIdle

NextCircuit ==
    \/ Queue /\ UNCHANGED <<fidVars, gradVars, drvVars, zneVars>>
    \/ Execute /\ UNCHANGED <<fidVars, gradVars, drvVars, zneVars>>
    \/ Apply /\ UNCHANGED <<fidVars, gradVars, drvVars, zneVars>>
    \/ Finish /\ UNCHANGED <<fidVars, gradVars, drvVars, zneVars>>

SpecCircuit == InitCircuit /\ [][NextCircuit]_vars

CircDone(fn) == job.fn = fn /\ qpc = "done"

(***************************************************************************)
(* fidelities(probs): one fidelity per probability, in order.              *)
(***************************************************************************)
\* qml.math.fidelity(state0, state1) of two density matrices.  Here state1
\* is the pure state of circuit(), for which the fidelity is Tr(state0 state1).
fidelity(state0, state1) == Trace(MatMul(state0, state1))

\* the states the two QNodes return (a QNode is a pure function of its argument)
circuit_bell_state == MixedState(circuit_bell)
bitflip_circuit_state == [p \in Probs |-> MixedState(bitflip_circuit(p))]

\* one element of the list comprehension
fidelity_of(p) == fidelity(bitflip_circuit_state[p], circuit_bell_state)

fidelities(ps) == [k \in 1..Len(ps) |-> fidelity_of(ps[k])]

RECURSIVE SeqsUpTo(_, _)
SeqsUpTo(S, n) ==
    IF n = 0 THEN {<<>>}
    ELSE LET shorter == SeqsUpTo(S, n - 1)
         IN  shorter \cup {Append(q, x) : q \in {t \in shorter : Len(t) = n - 1}, x \in S}

\* test_cases[0][0] = '[0.05, 0.1, 0.15, 0.2, 0.25]', when the grid holds it
test_probs ==
    IF ProbDen % 20 = 0
    THEN {[k \in 1..5 |-> k * (ProbDen \div 20)]}
    ELSE {}

FidInputs == SeqsUpTo(Probs, MaxProbs) \cup test_probs

FidIter ==
    /\ fpc = "loop"
    /\ Len(fids) < Len(probs)
    /\ fids' = Append(fids, fidelity_of(probs[Len(fids) + 1]))
    /\ UNCHANGED <<probs, fpc>>

FidReturn ==
    /\ fpc = "loop"
    /\ Len(fids) = Len(probs)
    /\ fpc' = "returned"
    /\ UNCHANGED <<probs, fids>>

InitFid ==
    /\ probs \in FidInputs
    /\ fids = <<>>
    /\ fpc = "loop"
    /\ CircIdle
    /\ GradIdle
    /\ DrvIdle
    /\ ZneIdle

NextFid ==
    \/ FidIter /\ UNCHANGED <<circVars, gradVars, drvVars, zneVars>>
    \/ FidReturn /\ UNCHANGED <<circVars, gradVars, drvVars, zneVars>>

SpecFid == InitFid /\ [][NextFid]_vars

(***************************************************************************)
(* Floating-point numbers of the gradient notebook: fixed point, counted   *)
(* in units of 1e-8.  A complex amplitude is <<re, im>>.                   *)
(***************************************************************************)
FxBase == 100 * 100
FxOne == FxBase * FxBase

\* the product, rounded to the nearest unit
FxMul(x, y) ==
    IF x = 0 \/ y = 0 THEN 0
    ELSE LET ax == Abs(x)
             ay == Abs(y)
             xh == ax \div FxBase
             xl == ax % FxBase
             yh == ay \div FxBase
             yl == ay % FxBase
             lo == (xl * yl + FxBase \div 2) \div FxBase
             m  == xh * yh + (xh * yl + xl * yh + lo + FxBase \div 2) \div FxBase
         IN  IF (x < 0) = (y < 0) THEN m ELSE -m

CAdd(x, y) == <<x[1] + y[1], x[2] + y[2]>>
CMul(x, y) ==
    <<FxMul(x[1], y[1]) - FxMul(x[2], y[2]), FxMul(x[1], y[2]) + FxMul(x[2], y[1])>>
CConj(x) == <<x[1], -x[2]>>
CZero == <<0, 0>>

\* 1/sqrt2, (sqrt2 + 1)/(4 sqrt2) and (sqrt2 - 1)/(4 sqrt2)
FxInvSqrt2 == 7071 * FxBase + 678
FxCoeff1 == 4267 * FxBase + 7670
FxCoeff2 == 732 * FxBase + 2330

(***************************************************************************)
(* Angles.  A gate angle is [base |-> b, k |-> k], the float                *)
(* BaseAngle(b) + k*pi/2: base 0 is 0.0 and bases 1, 2, 3 are the angles    *)
(* 1.23, 0.6, 4.56 of test_cases.  Shifting by a multiple of pi/2 changes k.*)
(***************************************************************************)
Angle(b, k) == [base |-> b, k |-> k]

\* <<cos, sin>> of half the base angle
HalfBase(b) ==
    IF b = 1 THEN <<8167 * FxBase + 7345, 5769 * FxBase + 5852>>
    ELSE IF b = 2 THEN <<9553 * FxBase + 3649, 2955 * FxBase + 2021>>
    ELSE IF b = 3 THEN <<-(6512 * FxBase + 2966), 7588 * FxBase + 8071>>
    ELSE <<FxOne, 0>>

\* <<cos, sin>> of k*pi/4
Quarter(k) ==
    LET m == k % 8
        c(j) == IF j = 0 THEN FxOne
                ELSE IF j = 4 THEN -FxOne
                ELSE IF j \in {2, 6} THEN 0
                ELSE IF j \in {1, 7} THEN FxInvSqrt2
                ELSE -FxInvSqrt2
    IN  <<c(m), c((m + 6) % 8)>>

\* <<cos(theta/2), sin(theta/2)>>
HalfTrig(theta) ==
    LET a == HalfBase(theta.base)
        q == Quarter(theta.k)
    IN  IF theta.base = 0 THEN q
        ELSE <<FxMul(a[1], q[1]) - FxMul(a[2], q[2]),
               FxMul(a[2], q[1]) + FxMul(a[1], q[2])>>

(***************************************************************************)
(* default.qubit on 3 wires: the state vector, wire 0 the most significant *)
(* bit of the basis index.                                                 *)
(***************************************************************************)
dev_grad_wires == 3

WireBit(idx, w) == (idx \div Pow2(dev_grad_wires - 1 - w)) % 2

ZeroState ==
    [idx \in 0..(Pow2(dev_grad_wires) - 1) |-> IF idx = 0 THEN <<FxOne, 0>> ELSE CZero]

\* the 2x2 matrix G on wire t; with a control wire c >= 0 only where wire c is
\* 1, the rest of the state being kept (keep) or dropped
ApplyGate(psi, G, t, c, keep) ==
    [idx \in DOMAIN psi |->
        IF c >= 0 /\ WireBit(idx, c) = 0
        THEN (IF keep THEN psi[idx] ELSE CZero)
        ELSE LET b  == WireBit(idx, t)
                 i0 == idx - b * Pow2(dev_grad_wires - 1 - t)
                 i1 == i0 + Pow2(dev_grad_wires - 1 - t)
             IN  CAdd(CMul(G[b + 1][1], psi[i0]), CMul(G[b + 1][2], psi[i1]))]

HadamardFx ==
    << <<(<<FxInvSqrt2, 0>>), (<<FxInvSqrt2, 0>>)>>,
       <<(<<FxInvSqrt2, 0>>), (<<-FxInvSqrt2, 0>>)>> >>

RXMatrix(theta) ==
    LET t == HalfTrig(theta)
    IN  << <<(<<t[1], 0>>), (<<0, -t[2]>>)>>,
           <<(<<0, -t[2]>>), (<<t[1], 0>>)>> >>

RYMatrix(theta) ==
    LET t == HalfTrig(theta)
    IN  << <<(<<t[1], 0>>), (<<-t[2], 0>>)>>,
           <<(<<t[2], 0>>), (<<t[1], 0>>)>> >>

RZMatrix(theta) ==
    LET t == HalfTrig(theta)
    IN  << <<(<<t[1], -t[2]>>), CZero>>,
           <<CZero, (<<t[1], t[2]>>)>> >>

CRX(psi, theta, wires) == ApplyGate(psi, RXMatrix(theta), wires[2], wires[1], TRUE)
CRY(psi, theta, wires) == ApplyGate(psi, RYMatrix(theta), wires[2], wires[1], TRUE)
CRZ(psi, theta, wires) == ApplyGate(psi, RZMatrix(theta), wires[2], wires[1], TRUE)

\* qml.broadcast(qml.Hadamard, wires=range(3), pattern="single")
BroadcastHadamard(psi) ==
    ApplyGate(ApplyGate(ApplyGate(psi, HadamardFx, 0, -1, TRUE),
                        HadamardFx, 1, -1, TRUE),
              HadamardFx, 2, -1, TRUE)

\* (PauliZ(0) + PauliZ(1) + PauliX(2)) applied to a state vector
Observable(phi) ==
    [idx \in DOMAIN phi |->
        LET z == (1 - 2 * WireBit(idx, 0)) + (1 - 2 * WireBit(idx, 1))
            f == IF WireBit(idx, 2) = 0 THEN idx + 1 ELSE idx - 1
        IN  <<z * phi[idx][1] + phi[f][1], z * phi[idx][2] + phi[f][2]>>]

RECURSIVE InnerFrom(_, _, _)
InnerFrom(psi, phi, idx) ==
    IF idx < 0 THEN CZero
    ELSE CAdd(CMul(CConj(psi[idx]), phi[idx]), InnerFrom(psi, phi, idx - 1))

\* <psi|phi>
Inner(psi, phi) == InnerFrom(psi, phi, Pow2(dev_grad_wires) - 1)

\* the state circuit(params) prepares; ps is indexed from 1
circuit_grad_state(ps) ==
    CRZ(CRY(CRX(BroadcastHadamard(ZeroState), ps[1], <<1, 2>>), ps[2], <<0, 1>>),
        ps[3], <<2, 0>>)

\* circuit(params): qml.expval(qml.PauliZ(0) + qml.PauliZ(1) + qml.PauliX(2))
circuit_grad(ps) ==
    LET psi == circuit_grad_state(ps)
    IN  Inner(psi, Observable(psi))[1]

\* params[2] of a list shorter than three raises IndexError
circuit_grad_raises(ps) == Len(ps) < 3

(***************************************************************************)
(* shifts_and_coeffs and my_parameter_shift_grad.                          *)
(***************************************************************************)
\* the two-term rule: shift pi/2, coefficient 1/2, no second pair
shifts_and_coeffs_two_term == << <<1, 3>>, <<FxOne \div 2, 0>> >>

\* [np.pi/2, np.pi*3/2] in units of pi/2, and the two coefficients
shifts_and_coeffs == << <<1, 3>>, <<FxCoeff1, FxCoeff2>> >>

shifts == shifts_and_coeffs[1]
coeffs == shifts_and_coeffs[2]

\* params[i] += delta * pi/2
Shifted(ps, i, delta) ==
    [ps EXCEPT ![i] = Angle(ps[i].base, ps[i].k + delta)]

\* np.round_(x, decimals=5) of one number: units of 1e-5, halves to even
Round5(x) ==
    LET q == x \div 1000
        r == x % 1000
    IN  IF r > 500 \/ (r = 500 /\ q % 2 = 1) THEN q + 1 ELSE q

(***************************************************************************)
(* The floats of params.  A Python float is a binary64 number; for the     *)
(* magnitudes met here (below 32, and multiples of 2^-53) it is kept as    *)
(* <<hi, lo>>, standing for (hi * 2^28 + lo) * 2^-53 with 0 <= lo < 2^28,  *)
(* and every sum is rounded to 53 significant bits, halves to even.        *)
(***************************************************************************)
F64Base == 16384 * 16384

F64Norm(h, l) == <<h + l \div F64Base, l % F64Base>>

F64Neg(x) == F64Norm(-x[1], -x[2])

F64Exact(x, y) == F64Norm(x[1] + y[1], x[2] + y[2])

\* the exact product with a small integer, and the exact half of an even number
F64Scale(x, n) == F64Norm(n * x[1], n * x[2])
F64Half(x) == <<x[1] \div 2, (x[1] % 2) * (F64Base \div 2) + x[2] \div 2>>

\* the spacing of the floats around x, in units of 2^-53
F64Ulp(x) ==
    LET h == IF x[1] < 0 THEN F64Neg(x)[1] ELSE x[1]
    IN  IF h < F64Base \div 8 THEN 1
        ELSE IF h < F64Base \div 4 THEN 2
        ELSE IF h < F64Base \div 2 THEN 4
        ELSE IF h < F64Base THEN 8
        ELSE 16

\* round to nearest, ties to even
F64Round(x) ==
    LET g == F64Ulp(x)
        r == x[2] % g
        q == x[2] \div g
    IN  IF r = 0 THEN x
        ELSE IF 2 * r > g \/ (2 * r = g /\ q % 2 = 1) THEN F64Norm(x[1], x[2] - r + g)
        ELSE <<x[1], x[2] - r>>

\* x + y and x - y as Python computes them
F64Add(x, y) == F64Round(F64Exact(x, y))
F64Sub(x, y) == F64Round(F64Exact(x, F64Neg(y)))

\* np.pi = 0x1.921fb54442d18p+1
np_pi == <<105414357, 17871968>>

\* the floats of shifts_and_coeffs: np.pi/2 and np.pi*3/2
shifts_f64 == <<F64Half(np_pi), F64Half(F64Round(F64Scale(np_pi, 3)))>>

\* the float json.loads gives for an angle of the inputs: 1.23, 0.6, 4.56, and
\* k*(pi/2) on the grid
F64Of(angle) ==
    IF angle.base = 1 THEN <<41271951, 96636764>>
    ELSE IF angle.base = 2 THEN <<20132659, 53687091>>
    ELSE IF angle.base = 3 THEN <<153008209, 246960616>>
    ELSE F64Round(F64Scale(F64Half(np_pi), angle.k))

F64List(ps) == [k \in 1..Len(ps) |-> F64Of(ps[k])]

\* lines 114-116: gradient = np.zeros_like(params); shifts, coeffs = ...
GradEnter ==
    /\ gpc = "call"
    /\ gradient' = [k \in 1..Len(params) |-> 0]
    /\ gi' = 1
    /\ gpc' = "loop"
    /\ UNCHANGED <<params, params0, tmp, evals, result, fparams, fevals>>

\* lines 121-123: params[i] += shifts[0]; gradient[i] = circuit(params)
GradPlus1 ==
    /\ gpc = "loop"
    /\ gi <= Len(params)
    /\ LET ps == Shifted(params, gi, shifts[1])
           fs == [fparams EXCEPT ![gi] = F64Add(@, shifts_f64[1])]
       IN  /\ params' = ps
           /\ evals' = Append(evals, ps)
           /\ fparams' = fs
           /\ fevals' = Append(fevals, fs)
           /\ IF circuit_grad_raises(ps)
              THEN gpc' = "raised" /\ UNCHANGED gradient
              ELSE /\ gpc' = "minus1"
                   /\ gradient' = [gradient EXCEPT ![gi] = circuit_grad(ps)]
    /\ UNCHANGED <<params0, tmp, gi, result>>

\* lines 124-125: params[i] -= 2*shift; gradient[i] -= circuit(params)
GradMinus1 ==
    /\ gpc = "minus1"
    /\ LET ps == Shifted(params, gi, -2 * shifts[1])
           fs == [fparams EXCEPT ![gi] = F64Sub(@, F64Scale(shifts_f64[1], 2))]
       IN  /\ params' = ps
           /\ evals' = Append(evals, ps)
           /\ fparams' = fs
           /\ fevals' = Append(fevals, fs)
           /\ gradient' = [gradient EXCEPT ![gi] = @ - circuit_grad(ps)]
    /\ gpc' = "plus2"
    /\ UNCHANGED <<params0, tmp, gi, result>>

\* lines 126-132: params[i] += shift; gradient[i] *= coeffs[0];
\* params[i] += shifts[1]; tmp = circuit(params)
GradPlus2 ==
    /\ gpc = "plus2"
    /\ LET ps == Shifted(Shifted(params, gi, shifts[1]), gi, shifts[2])
           fs == [fparams EXCEPT ![gi] = F64Add(F64Add(@, shifts_f64[1]), shifts_f64[2])]
       IN  /\ params' = ps
           /\ evals' = Append(evals, ps)
           /\ fparams' = fs
           /\ fevals' = Append(fevals, fs)
           /\ tmp' = circuit_grad(ps)
    /\ gradient' = [gradient EXCEPT ![gi] = FxMul(@, coeffs[1])]
    /\ gpc' = "minus2"
    /\ UNCHANGED <<params0, gi, result>>

\* lines 133-134: params[i] -= 2*shift; tmp -= circuit(params)
GradMinus2 ==
    /\ gpc = "minus2"
    /\ LET ps == Shifted(params, gi, -2 * shifts[2])
           fs == [fparams EXCEPT ![gi] = F64Sub(@, F64Scale(shifts_f64[2], 2))]
       IN  /\ params' = ps
           /\ evals' = Append(evals, ps)
           /\ fparams' = fs
           /\ fevals' = Append(fevals, fs)
           /\ tmp' = tmp - circuit_grad(ps)
    /\ gpc' = "end"
    /\ UNCHANGED <<params0, gradient, gi, result>>

\* the end of an iteration without the last params[i] += shift
GradEndIter_no_restore ==
    /\ gpc = "end"
    /\ params' = params
    /\ fparams' = fparams
    /\ tmp' = FxMul(tmp, coeffs[2])
    /\ gradient' = [gradient EXCEPT ![gi] = @ - FxMul(tmp, coeffs[2])]
    /\ gi' = gi + 1
    /\ gpc' = "loop"
    /\ UNCHANGED <<params0, evals, result, fevals>>

\* lines 135-138: params[i] += shift; tmp *= coeffs[1]; gradient[i] -= tmp
GradEndIter ==
    /\ gpc = "end"
    /\ params' = Shifted(params, gi, shifts[2])
    /\ fparams' = [fparams EXCEPT ![gi] = F64Add(@, shifts_f64[2])]
    /\ tmp' = FxMul(tmp, coeffs[2])
    /\ gradient' = [gradient EXCEPT ![gi] = @ - FxMul(tmp, coeffs[2])]
    /\ gi' = gi + 1
    /\ gpc' = "loop"
    /\ UNCHANGED <<params0, evals, result, fevals>>

\* line 140: return np.round_(gradient, decimals=5).tolist()
GradReturn ==
    /\ gpc = "loop"
    /\ gi > Len(params)
    /\ result' = [k \in 1..Len(gradient) |-> Round5(gradient[k])]
    /\ gpc' = "returned"
    /\ UNCHANGED <<params, params0, gradient, tmp, gi, evals, fparams, fevals>>

\* the angles a list may hold: the grid, and the three angles of test_cases
GridAngles == {Angle(0, k) : k \in 0..AngleMax}
TestAngles == {Angle(b, 0) : b \in 1..3}

\* test_cases[0][0] = '[1.23, 0.6, 4.56]'
test_params == <<Angle(1, 0), Angle(2, 0), Angle(3, 0)>>

GradInputs ==
    {<<>>, <<Angle(0, 1), Angle(2, 0)>>, Append(test_params, Angle(0, 1))}
    \cup {<<a, b, c>> : a \in GridAngles \cup TestAngles,
                        b \in GridAngles \cup TestAngles,
                        c \in GridAngles \cup TestAngles}

InitGrad ==
    /\ params0 \in GradInputs
    /\ params = params0
    /\ gradient = <<>>
    /\ tmp = 0
    /\ gi = 0
    /\ gpc = "call"
    /\ evals = <<>>
    /\ result = <<>>
    /\ fparams = F64List(params0)
    /\ fevals = <<>>
    /\ CircIdle
    /\ FidIdle
    /\ DrvIdle
    /\ ZneIdle

NextGrad ==
    \/ GradEnter /\ UNCHANGED <<circVars, fidVars, drvVars, zneVars>>
    \/ GradPlus1 /\ UNCHANGED <<circVars, fidVars, drvVars, zneVars>>
    \/ GradMinus1 /\ UNCHANGED <<circVars, fidVars, drvVars, zneVars>>
    \/ GradPlus2 /\ UNCHANGED <<circVars, fidVars, drvVars, zneVars>>
    \/ GradMinus2 /\ UNCHANGED <<circVars, fidVars, drvVars, zneVars>>
    \/ GradEndIter /\ UNCHANGED <<circVars, fidVars, drvVars, zneVars>>
    \/ GradReturn /\ UNCHANGED <<circVars, fidVars, drvVars, zneVars>>

SpecGrad == InitGrad /\ [][NextGrad]_vars

(***************************************************************************)
(* The ZNE notebook: VQE routines on an ideal and on folded noisy QNodes,  *)
(* and the extrapolation to zero noise.  A QNode built from                *)
(* ansatz_template is the energy of BasisState([1,1,0,0]) followed by      *)
(* DoubleExcitation(param), which is a + b cos(param) + c sin(param); the  *)
(* numbers a, b, c come from the simulator and stand here for its results. *)
(* Energies and parameters are in units of 1e-8.                           *)
(***************************************************************************)
\* cos and sin by their series, for arguments up to about 1.5
CosFx(x) ==
    LET x2 == FxMul(x, x)
        t5 == FxOne - x2 \div 90
        t4 == FxOne - FxMul(x2, t5) \div 56
        t3 == FxOne - FxMul(x2, t4) \div 30
        t2 == FxOne - FxMul(x2, t3) \div 12
    IN  FxOne - FxMul(x2, t2) \div 2

SinFx(x) ==
    LET x2 == FxMul(x, x)
        t5 == FxOne - x2 \div 110
        t4 == FxOne - FxMul(x2, t5) \div 72
        t3 == FxOne - FxMul(x2, t4) \div 42
        t2 == FxOne - FxMul(x2, t3) \div 20
        t1 == FxOne - FxMul(x2, t2) \div 6
    IN  FxMul(x, t1)

\* the distances d the model knows: 0.6614 (the test case), 0.5 and 1.0
Distances == {6614 * FxBase, 5000 * FxBase, 10000 * FxBase}

\* H restricted to |1100> and |0011>: the two diagonal elements, the coupling,
\* and the energy of the maximally mixed state
hydrogen_hamiltonian(d) ==
    IF d = 6614 * FxBase
    THEN [hf |-> -11173 * FxBase, exc |-> 3509 * FxBase,
          coupling |-> 1809 * FxBase, mixed |-> -2131 * FxBase]
    ELSE IF d = 5000 * FxBase
    THEN [hf |-> -10429 * FxBase, exc |-> 6102 * FxBase,
          coupling |-> 1694 * FxBase, mixed |-> -1003 * FxBase]
    ELSE [hf |-> -10661 * FxBase, exc |-> -1240 * FxBase,
          coupling |-> 1962 * FxBase, mixed |-> -3882 * FxBase]

\* the energy landscape of cost_fn on the noise-free device
IdealQnode(d) ==
    LET H == hydrogen_hamiltonian(d)
    IN  [a |-> (H.hf + H.exc) \div 2, b |-> (H.hf - H.exc) \div 2, c |-> -H.coupling]

\* what one layer of depolarizing noise leaves of the signal
Damping == 85 * (FxOne \div 100)

RECURSIVE DampingPower(_)
DampingPower(n) == IF n = 0 THEN FxOne ELSE FxMul(Damping, DampingPower(n - 1))

\* fold_global(qnode_noisy, scale_factor): the noise acts scale_factor times
MitigatedQnode(d, scale_factor) ==
    LET H == hydrogen_hamiltonian(d)
        q == IdealQnode(d)
        l == DampingPower(scale_factor)
    IN  [a |-> H.mixed + FxMul(l, q.a - H.mixed), b |-> FxMul(l, q.b), c |-> FxMul(l, q.c)]

\* qnode_ideal first, then qnodes_mitigated in the order of scale_factors
qnode_ansatzes(d, sfs) ==
    <<IdealQnode(d)>> \o [k \in 1..Len(sfs) |-> MitigatedQnode(d, sfs[k])]

\* qnode(param) and its derivative
Energy(q, x) == q.a + FxMul(q.b, CosFx(x)) + FxMul(q.c, SinFx(x))
EnergyGrad(q, x) == FxMul(q.c, CosFx(x)) - FxMul(q.b, SinFx(x))

num_iters == 20
stepsize == 4 * (FxOne \div 10)

\* qml.GradientDescentOptimizer(stepsize=0.4).step(qnode, param)
opt_step(q, x) == x - FxMul(stepsize, EnergyGrad(q, x))

\* np.round_(x, decimals=6)
Round6(x) ==
    LET q == x \div 100
        r == x % 100
    IN  100 * (IF r > 50 \/ (r = 50 /\ q % 2 = 1) THEN q + 1 ELSE q)

(***************************************************************************)
(* np.polyfit(x, y, 2): the least-squares quadratic, by the normal         *)
(* equations.  Every coefficient is a combination of the y with rational   *)
(* weights that depend on x only; a coefficient is <<numerator,            *)
(* denominator>>.                                                          *)
(***************************************************************************)
RECURSIVE PowerSumFrom(_, _, _)
PowerSumFrom(xs, j, k) ==
    IF k > Len(xs) THEN 0
    ELSE (IF j = 0 THEN 1 ELSE IF j = 1 THEN xs[k] ELSE IF j = 2 THEN xs[k] * xs[k]
          ELSE IF j = 3 THEN xs[k] * xs[k] * xs[k]
          ELSE xs[k] * xs[k] * xs[k] * xs[k])
         + PowerSumFrom(xs, j, k + 1)

PowerSum(xs, j) == PowerSumFrom(xs, j, 1)

\* the matrix of the normal equations, rows and columns for x^2, x, 1
NormalMatrix(xs) ==
    << <<PowerSum(xs, 4), PowerSum(xs, 3), PowerSum(xs, 2)>>,
       <<PowerSum(xs, 3), PowerSum(xs, 2), PowerSum(xs, 1)>>,
       <<PowerSum(xs, 2), PowerSum(xs, 1), PowerSum(xs, 0)>> >>

Det2(p, q, r, t) == p * t - q * r

\* the adjugate of a symmetric 3x3 matrix
Adjugate(M) ==
    << << Det2(M[2][2], M[2][3], M[3][2], M[3][3]),
         -Det2(M[1][2], M[1][3], M[3][2], M[3][3]),
          Det2(M[1][2], M[1][3], M[2][2], M[2][3]) >>,
       <<-Det2(M[2][1], M[2][3], M[3][1], M[3][3]),
          Det2(M[1][1], M[1][3], M[3][1], M[3][3]),
         -Det2(M[1][1], M[1][3], M[2][1], M[2][3]) >>,
       << Det2(M[2][1], M[2][2], M[3][1], M[3][2]),
         -Det2(M[1][1], M[1][2], M[3][1], M[3][2]),
          Det2(M[1][1], M[1][2], M[2][1], M[2][2]) >> >>

Det3(M) ==
    LET A == Adjugate(M)
    IN  M[1][1] * A[1][1] + M[1][2] * A[2][1] + M[1][3] * A[3][1]

RECURSIVE GCDOfFrom(_, _)
GCDOfFrom(ws, k) == IF k > Len(ws) THEN 0 ELSE GCD(Abs(ws[k]), GCDOfFrom(ws, k + 1))

\* row r of (V^T V)^-1 V^T: integer weights of the y and their denominator
FitWeights(xs, r) ==
    LET M == NormalMatrix(xs)
        A == Adjugate(M)
        w == [k \in 1..Len(xs) |-> A[r][1] * xs[k] * xs[k] + A[r][2] * xs[k] + A[r][3]]
        g == GCD(Abs(Det3(M)), GCDOfFrom(w, 1))
    IN  [num |-> [k \in 1..Len(xs) |-> w[k] \div g], den |-> Det3(M) \div g]

RECURSIVE DotSeqFrom(_, _, _)
DotSeqFrom(ws, ys, k) ==
    IF k > Len(ws) THEN 0 ELSE ws[k] * ys[k] + DotSeqFrom(ws, ys, k + 1)

\* highest power first, as np.polyfit returns them
polyfit(xs, ys) ==
    [r \in 1..3 |-> LET w == FitWeights(xs, r)
                    IN  <<DotSeqFrom(w.num, ys, 1), w.den>>]

\* the float a coefficient is
CoeffValue(cf) ==
    LET q == cf[1] \div cf[2]
        r == cf[1] % cf[2]
    IN  IF 2 * r > cf[2] \/ (2 * r = cf[2] /\ q % 2 = 1) THEN q + 1 ELSE q

(***************************************************************************)
(* extrapolation(d, scale_factors) and the VQE routines it runs.           *)
(***************************************************************************)
\* line 171: qnode_ideal, qnodes_mitigated = qnode_ansatzes(d, scale_factors)
ExtrapolationEnter ==
    /\ zpc = "call"
    /\ qnodes' = qnode_ansatzes(distance, scale_factors)
    /\ routine' = 1
    /\ zpc' = "vqe"
    /\ UNCHANGED <<distance, scale_factors, param, iters, routines,
                   ideal_energy, mitigated_energies, energies>>

\* the next routine starts from the parameter the last one ended with
VQEEnter_warm ==
    /\ zpc = "vqe"
    /\ param' = param
    /\ iters' = 0
    /\ routines' = Append(routines, [qnode |-> routine, param |-> param])
    /\ zpc' = "loop"
    /\ UNCHANGED <<distance, scale_factors, qnodes, routine,
                   ideal_energy, mitigated_energies, energies>>

\* lines 106-108: param = np.array(0.0); num_iters = 20; opt = ...
VQEEnter ==
    /\ zpc = "vqe"
    /\ param' = 0
    /\ iters' = 0
    /\ routines' = Append(routines, [qnode |-> routine, param |-> 0])
    /\ zpc' = "loop"
    /\ UNCHANGED <<distance, scale_factors, qnodes, routine,
                   ideal_energy, mitigated_energies, energies>>

\* lines 110-111: param = opt.step(qnode, param)
VQEStep ==
    /\ zpc = "loop"
    /\ iters < num_iters
    /\ param' = opt_step(qnodes[routine], param)
    /\ iters' = iters + 1
    /\ UNCHANGED <<distance, scale_factors, qnodes, zpc, routine, routines,
                   ideal_energy, mitigated_energies, energies>>

\* lines 113-115 and 173-174: final_energy = qnode(param), kept by extrapolation;
\* the ideal energy is rounded, the mitigated ones are listed in order
VQEReturn ==
    /\ zpc = "loop"
    /\ iters = num_iters
    /\ LET final_energy == Energy(qnodes[routine], param)
       IN  IF routine = 1
           THEN /\ ideal_energy' = Round6(final_energy)
                /\ UNCHANGED mitigated_energies
           ELSE /\ mitigated_energies' = Append(mitigated_energies, final_energy)
                /\ UNCHANGED ideal_energy
    /\ IF routine < Len(qnodes)
       THEN routine' = routine + 1 /\ zpc' = "vqe"
       ELSE routine' = routine /\ zpc' = "fit"
    /\ UNCHANGED <<distance, scale_factors, qnodes, param, iters, routines, energies>>

\* zne_energy = coeffs[-1]
polyfit_leading(xs, ys) == polyfit(xs, ys)[1]

zne_energy(xs, ys) == polyfit(xs, ys)[3]

\* lines 177-180: coeffs = np.polyfit(...); zne_energy = coeffs[-1];
\* return np.array([ideal_energy, zne_energy]).tolist()
ExtrapolationFit ==
    /\ zpc = "fit"
    /\ energies' = <<ideal_energy,
                     CoeffValue(zne_energy(scale_factors, mitigated_energies))>>
    /\ zpc' = "returned"
    /\ UNCHANGED <<distance, scale_factors, qnodes, routine, param, iters, routines,
                   ideal_energy, mitigated_energies>>

\* run: scale_factors = [1, 2, 3]; other callers may pass other lists
ScaleFactorLists == {<<1, 2, 3>>, <<3, 1, 2>>, <<1, 2, 4>>, <<2, 3, 4>>, <<1, 2, 3, 4>>}

InitZne ==
    /\ distance \in Distances
    /\ scale_factors \in ScaleFactorLists
    /\ qnodes = <<>>
    /\ zpc = "call"
    /\ routine = 0
    /\ param = 0
    /\ iters = 0
    /\ routines = <<>>
    /\ ideal_energy = 0
    /\ mitigated_energies = <<>>
    /\ energies = <<>>
    /\ CircIdle
    /\ FidIdle
    /\ GradIdle
    /\ DrvIdle

NextZne ==
    \/ ExtrapolationEnter /\ UNCHANGED <<circVars, fidVars, gradVars, drvVars>>
    \/ VQEEnter /\ UNCHANGED <<circVars, fidVars, gradVars, drvVars>>
    \/ VQEStep /\ UNCHANGED <<circVars, fidVars, gradVars, drvVars>>
    \/ VQEReturn /\ UNCHANGED <<circVars, fidVars, gradVars, drvVars>>
    \/ ExtrapolationFit /\ UNCHANGED <<circVars, fidVars, gradVars, drvVars>>

SpecZne == InitZne /\ [][NextZne]_vars

(***************************************************************************)
(* Strings, JSON and exceptions.  A string is JSON text holding a value or *)
(* plain text that json.loads rejects; a call returns a value or raises.   *)
(***************************************************************************)
JsonText(v) == [kind |-> "json", value |-> v]
PlainText(t) == [kind |-> "text", value |-> t]

Returned(v) == [raised |-> FALSE, exc |-> "none", value |-> v]
Raised(e) == [raised |-> TRUE, exc |-> e, value |-> <<>>]

json_loads(str) ==
    IF str.kind = "json" THEN Returned(str.value) ELSE Raised("JSONDecodeError")

\* the classes `except Exception` catches
IsException(e) ==
    e \in {"JSONDecodeError", "IndexError", "ValueError", "AssertionError"}

\* sqrt2 in units of 1e-8
FxSqrt2 == 14142 * FxBase + 1356

\* a*m/n rounded, for a >= 0
MulDiv(a, m, n) ==
    LET t1 == a * (m \div FxBase)
    IN  (t1 \div n) * FxBase + ((t1 % n) * FxBase + a * (m % FxBase) + n \div 2) \div n

SignedMulDiv(a, m, n) == IF a < 0 THEN -MulDiv(-a, m, n) ELSE MulDiv(a, m, n)

\* the float holding the real part of an exact number
ToFx(x) == SignedMulDiv(x[1], FxOne, x[5]) + SignedMulDiv(x[2], FxSqrt2, x[5])

MatToFx(M) == [r \in DOMAIN M |-> [c \in DOMAIN M |-> ToFx(M[r][c])]]

(***************************************************************************)
(* np.allclose(a, b, rtol): |a - b| <= atol + rtol*|b| with atol = 1e-8,   *)
(* rtol given as its inverse.                                              *)
(***************************************************************************)
\* the comparison without the absolute tolerance
isclose_relative(a, b, rtolInv) == Abs(a - b) <= Abs(b) \div rtolInv

isclose(a, b, rtolInv) ==
    LET d == Abs(a - b)
    IN  d <= 1 \/ d - 1 <= Abs(b) \div rtolInv

\* on two lists: equal lengths elementwise, a list of one element is broadcast,
\* other lengths cannot be broadcast together
allclose(a, b, rtolInv) ==
    IF Len(a) = Len(b)
    THEN Returned(\A k \in 1..Len(a) : isclose(a[k], b[k], rtolInv))
    ELSE IF Len(b) = 1
    THEN Returned(\A k \in 1..Len(a) : isclose(a[k], b[1], rtolInv))
    ELSE IF Len(a) = 1
    THEN Returned(\A k \in 1..Len(b) : isclose(a[1], b[k], rtolInv))
    ELSE Raised("ValueError")

\* on two square matrices of one shape
mat_allclose(A, B, rtolInv) ==
    \A r \in DOMAIN A : \A c \in DOMAIN A : isclose(A[r][c], B[r][c], rtolInv)

\* rtol=1e-4 of the gradient and fidelity notebooks; numpy's default 1e-5
rtol_inv_list == 100 * 100
rtol_inv_default == 10 * FxBase

(***************************************************************************)
(* check of each notebook: returns None or raises.                         *)
(***************************************************************************)
\* a check that parses both strings and compares nothing
check_list_parse_only(solution_output, expected_output) ==
    LET sol == json_loads(solution_output)
        exp == json_loads(expected_output)
    IN  IF sol.raised THEN sol
        ELSE IF exp.raised THEN exp
        ELSE Returned("None")

\* gradient and fidelity notebooks
check_list(solution_output, expected_output) ==
    LET sol == json_loads(solution_output)
        exp == json_loads(expected_output)
    IN  IF sol.raised THEN sol
        ELSE IF exp.raised THEN exp
        ELSE LET ok == allclose(sol.value, exp.value, rtol_inv_list)
             IN  IF ok.raised THEN ok
                 ELSE IF ok.value THEN Returned("None")
                 ELSE Raised("AssertionError")

\* 1/np.sqrt(2) * np.array([[1, 1, 0, ...], ...])
solution_rows ==
    << <<1, 1, 0, 0, 0, 0, 0, 0>>,
       <<1, -1, 0, 0, 0, 0, 0, 0>>,
       <<0, 0, -1, -1, 0, 0, 0, 0>>,
       <<0, 0, -1, 1, 0, 0, 0, 0>>,
       <<0, 0, 0, 0, 1, 1, 0, 0>>,
       <<0, 0, 0, 0, 1, -1, 0, 0>>,
       <<0, 0, 0, 0, 0, 0, 1, 1>>,
       <<0, 0, 0, 0, 0, 0, 1, -1>> >>

solution ==
    [r \in 0..7 |-> [c \in 0..7 |-> solution_rows[r + 1][c + 1] * FxInvSqrt2]]

swap_solution == MatToFx(SWAPMatrix)

\* U3 and CNOT notebook
check_u3(user_output, expected_output) ==
    LET parsed == json_loads(user_output)
    IN  IF parsed.raised THEN parsed
        ELSE LET matrix_user == parsed.value.matrix
                 gates == {parsed.value.gates[k] : k \in 1..Len(parsed.value.gates)}
             IN  IF ~mat_allclose(matrix_user, solution, rtol_inv_default)
                 THEN Raised("AssertionError")
                 ELSE IF ~(Cardinality(gates) = 2 /\ "U3" \in gates /\ "CNOT" \in gates)
                 THEN Raised("AssertionError")
                 ELSE Returned("None")

\* H, T and CNOT notebook
check_htc(user_output, expected_output) ==
    LET parsed == json_loads(user_output)
    IN  IF parsed.raised THEN parsed
        ELSE LET matrix_user == parsed.value.matrix
                 gates == {parsed.value.gates[k] : k \in 1..Len(parsed.value.gates)}
             IN  IF ~mat_allclose(matrix_user, swap_solution, rtol_inv_default)
                 THEN Raised("AssertionError")
                 ELSE IF ~(Cardinality(gates) = 3 /\ "Hadamard" \in gates
                           /\ "CNOT" \in gates /\ "T" \in gates)
                 THEN Raised("AssertionError")
                 ELSE Returned("None")

\* rtol=1e-2 of the ZNE notebook
rtol_inv_zne == 100

\* ZNE notebook
check_zne(solution_output, expected_output) ==
    LET sol == json_loads(solution_output)
        exp == json_loads(expected_output)
    IN  IF sol.raised THEN sol
        ELSE IF exp.raised THEN exp
        ELSE LET ok == allclose(sol.value, exp.value, rtol_inv_zne)
             IN  IF ok.raised THEN ok
                 ELSE IF ok.value THEN Returned("None")
                 ELSE Raised("AssertionError")

check(n, out, expected) ==
    IF n = "u3" THEN check_u3(out, expected)
    ELSE IF n = "zne" THEN check_zne(out, expected)
    ELSE IF n = "htc" THEN check_htc(out, expected)
    ELSE check_list(out, expected)

(***************************************************************************)
(* test_cases of each notebook, and lists like them.                       *)
(***************************************************************************)
\* '[0.08144, -0.33706, -0.37944]'
test_expected_grad == <<8144 * 1000, -33706 * 1000, -37944 * 1000>>
\* '[0.905, 0.82, 0.745, 0.68, 0.625]'
test_expected_fid == <<905 * 100000, 820 * 100000, 745 * 100000, 680 * 100000, 625 * 100000>>

CasesOf(n) ==
    IF n = "grad"
    THEN {<<i, e>> : i \in {JsonText(test_params),
                            JsonText(<<Angle(0, 1), Angle(2, 0)>>),
                            PlainText("No input")},
                     e \in {JsonText(test_expected_grad),
                            JsonText(<<8144 * 1000, -33706 * 1000, 37944 * 1000>>)}}
    ELSE IF n = "fid"
    THEN {<<i, e>> : i \in {JsonText(q) : q \in test_probs \cup {<<0, ProbDen>>}},
                     e \in {JsonText(test_expected_fid),
                            JsonText(<<FxOne>>),
                            PlainText("No output")}}
    ELSE {<<i, e>> : i \in {PlainText("No input")},
                     e \in {PlainText("No output"), JsonText(<<>>)}}

Notebooks == {"grad", "fid", "u3", "htc"}

(***************************************************************************)
(* The driver loop (the last cell of every notebook) and run.              *)
(***************************************************************************)
Line(c, k, a) == [case |-> c, kind |-> k, arg |-> a]

\* a handler that goes on to the next test case and prints nothing
Except_silent(e) ==
    /\ ti' = ti + 1
    /\ dpc' = "for"
    /\ UNCHANGED <<stdout, uncaught>>

\* except Exception as exc: print(f"Runtime Error. {exc}"); an exception of
\* another class leaves the loop
Except(e) ==
    IF IsException(e)
    THEN /\ stdout' = Append(stdout, Line(ti, "Runtime Error.", e))
         /\ ti' = ti + 1
         /\ dpc' = "for"
         /\ uncaught' = uncaught
    ELSE /\ uncaught' = e
         /\ dpc' = "aborted"
         /\ UNCHANGED <<stdout, ti>>

\* for i, (input_, expected_output) in enumerate(test_cases): print(...)
DriverFor ==
    /\ dpc = "for"
    /\ ti <= Len(test_cases)
    /\ stdout' = Append(stdout, Line(ti, "Running test case", test_cases[ti][1]))
    /\ dpc' = "try"
    /\ UNCHANGED <<nb, test_cases, ti, matrix, output, calls, uncaught>>
    /\ UNCHANGED <<circVars, fidVars, gradVars, zneVars>>

DriverDone ==
    /\ dpc = "for"
    /\ ti > Len(test_cases)
    /\ dpc' = "done"
    /\ UNCHANGED <<nb, test_cases, ti, matrix, output, stdout, calls, uncaught>>
    /\ UNCHANGED <<circVars, fidVars, gradVars, zneVars>>

\* output = run(input_): the call, up to the notebook's function
RunCall ==
    /\ dpc = "try"
    /\ LET inp == json_loads(test_cases[ti][1])
       IN  IF nb \in {"grad", "fid"} /\ inp.raised
           THEN /\ calls' = Append(calls, Line(ti, "run raised", inp.exc))
                /\ Except(inp.exc)
                /\ UNCHANGED <<circVars, fidVars, gradVars, zneVars>>
           ELSE /\ dpc' = "run"
                /\ UNCHANGED <<ti, stdout, calls, uncaught>>
                /\ IF nb = "grad"
                   THEN /\ params' = inp.value
                        /\ params0' = inp.value
                        /\ gradient' = <<>>
                        /\ tmp' = 0
                        /\ gi' = 0
                        /\ gpc' = "call"
                        /\ evals' = <<>>
                        /\ result' = <<>>
                        /\ fparams' = F64List(inp.value)
                        /\ fevals' = <<>>
                        /\ UNCHANGED <<circVars, fidVars, zneVars>>
                   ELSE IF nb = "fid"
                   THEN /\ probs' = inp.value
                        /\ fids' = <<>>
                        /\ fpc' = "loop"
                        /\ UNCHANGED <<circVars, gradVars, zneVars>>
                   ELSE /\ job' = [fn |-> IF nb = "u3" THEN "circuit_u3" ELSE "circuit_htc",
                                   mode |-> "matrix", p |-> 0]
                        /\ tape' = <<>>
                        /\ qpc' = "queue"
                        /\ kk' = 0
                        /\ mat' = Identity(0)
                        /\ UNCHANGED <<fidVars, gradVars, zneVars>>
    /\ UNCHANGED <<nb, test_cases, matrix, output>>

\* matrix = qml.matrix(circuit)().real; with qml.tape.QuantumTape() as tape: ...
RunTape ==
    /\ dpc = "run"
    /\ qpc = "done"
    /\ job.mode = "matrix"
    /\ matrix' = MatToFx(MatReal(mat))
    /\ job' = [fn |-> IF nb = "u3" THEN "circuit_u3" ELSE "U", mode |-> "tape", p |-> 0]
    /\ tape' = <<>>
    /\ qpc' = "queue"
    /\ UNCHANGED <<kk, mat>>
    /\ UNCHANGED <<nb, test_cases, ti, dpc, output, stdout, calls, uncaught>>
    /\ UNCHANGED <<fidVars, gradVars, zneVars>>

\* what run returns once the notebook's function has
RunOutput ==
    IF nb = "grad" THEN JsonText([k \in 1..Len(result) |-> result[k] * 1000])
    ELSE IF nb = "fid" THEN JsonText([k \in 1..Len(fids) |-> ToFx(fids[k])])
    ELSE JsonText([matrix |-> matrix, gates |-> Names(tape)])

\* return str(...) / json.dumps(...): run returns, the else clause is next
RunReturn ==
    /\ dpc = "run"
    /\ \/ nb = "grad" /\ gpc = "returned"
       \/ nb = "fid" /\ fpc = "returned"
       \/ nb \in {"u3", "htc"} /\ qpc = "done" /\ job.mode = "tape"
    /\ output' = RunOutput
    /\ calls' = Append(calls, Line(ti, "run returned", RunOutput))
    /\ dpc' = "else"
    /\ UNCHANGED <<nb, test_cases, ti, matrix, stdout, uncaught>>
    /\ UNCHANGED <<circVars, fidVars, gradVars, zneVars>>

\* an exception leaves run: circuit(params) raised IndexError
RunRaise ==
    /\ dpc = "run"
    /\ nb = "grad"
    /\ gpc = "raised"
    /\ calls' = Append(calls, Line(ti, "run raised", "IndexError"))
    /\ Except("IndexError")
    /\ UNCHANGED <<nb, test_cases, matrix, output>>
    /\ UNCHANGED <<circVars, fidVars, gradVars, zneVars>>

\* an else clause that prints "Correct!" whatever check does
DriverCheck_lenient ==
    /\ dpc = "else"
    /\ calls' = Append(calls, Line(ti, "check called", <<>>))
    /\ stdout' = Append(stdout, Line(ti, "Correct!", <<>>))
    /\ ti' = ti + 1
    /\ dpc' = "for"
    /\ UNCHANGED uncaught
    /\ UNCHANGED <<nb, test_cases, matrix, output>>
    /\ UNCHANGED <<circVars, fidVars, gradVars, zneVars>>

\* else: if message := check(output, expected_output): print("Wrong Answer...")
\*       else: print("Correct!")
\* an exception check raises is outside the try body and leaves the loop
DriverCheck ==
    /\ dpc = "else"
    /\ LET message == check(nb, output, test_cases[ti][2])
       IN  IF message.raised
           THEN /\ calls' = Append(calls, Line(ti, "check raised", message.exc))
                /\ uncaught' = message.exc
                /\ dpc' = "aborted"
                /\ UNCHANGED <<stdout, ti>>
           ELSE /\ calls' = Append(calls, Line(ti, "check returned", message.value))
                /\ stdout' = Append(stdout,
                      IF message.value # "None"
                      THEN Line(ti, "Wrong Answer.", <<output, test_cases[ti][2]>>)
                      ELSE Line(ti, "Correct!", <<>>))
                /\ ti' = ti + 1
                /\ dpc' = "for"
                /\ UNCHANGED uncaught
    /\ UNCHANGED <<nb, test_cases, matrix, output>>
    /\ UNCHANGED <<circVars, fidVars, gradVars, zneVars>>

Running == dpc = "run"

InitDriver ==
    /\ nb \in Notebooks
    /\ test_cases \in SeqsUpTo(CasesOf(nb), MaxCases)
    /\ ti = 1
    /\ dpc = "for"
    /\ matrix = <<>>
    /\ output = NoString
    /\ stdout = <<>>
    /\ calls = <<>>
    /\ uncaught = "none"
    /\ job = Idle
    /\ tape = <<>>
    /\ qpc = "done"
    /\ kk = 0
    /\ mat = Identity(0)
    /\ FidIdle
    /\ GradIdle
    /\ ZneIdle

NextDriver ==
    \/ DriverFor
    \/ DriverDone
    \/ RunCall
    \/ RunTape
    \/ RunReturn
    \/ RunRaise
    \/ DriverCheck
    \/ Running /\ Queue /\ UNCHANGED <<fidVars, gradVars, drvVars, zneVars>>
    \/ Running /\ Execute /\ UNCHANGED <<fidVars, gradVars, drvVars, zneVars>>
    \/ Running /\ Apply /\ UNCHANGED <<fidVars, gradVars, drvVars, zneVars>>
    \/ Running /\ Finish /\ UNCHANGED <<fidVars, gradVars, drvVars, zneVars>>
    \/ Running /\ FidIter /\ UNCHANGED <<circVars, gradVars, drvVars, zneVars>>
    \/ Running /\ FidReturn /\ UNCHANGED <<circVars, gradVars, drvVars, zneVars>>
    \/ Running /\ GradEnter /\ UNCHANGED <<circVars, fidVars, drvVars, zneVars>>
    \/ Running /\ GradPlus1 /\ UNCHANGED <<circVars, fidVars, drvVars, zneVars>>
    \/ Running /\ GradMinus1 /\ UNCHANGED <<circVars, fidVars, drvVars, zneVars>>
    \/ Running /\ GradPlus2 /\ UNCHANGED <<circVars, fidVars, drvVars, zneVars>>
    \/ Running /\ GradMinus2 /\ UNCHANGED <<circVars, fidVars, drvVars, zneVars>>
    \/ Running /\ GradEndIter /\ UNCHANGED <<circVars, fidVars, drvVars, zneVars>>
    \/ Running /\ GradReturn /\ UNCHANGED <<circVars, fidVars, drvVars, zneVars>>

SpecDriver == InitDriver /\ [][NextDriver]_vars

(***************************************************************************)
(* check on its own: the else clause of the driver, entered with outputs   *)
(* and expected strings around the tolerance.                              *)
(***************************************************************************)
\* '[-1.13619, -0.41168]'
test_expected_zne == <<-113619 * 1000, -41168 * 1000>>

AllNotebooks == Notebooks \cup {"zne"}

\* the inverse of the relative tolerance check uses in notebook n
rtol_inv(n) ==
    IF n \in {"u3", "htc"} THEN rtol_inv_default
    ELSE IF n = "zne" THEN rtol_inv_zne
    ELSE rtol_inv_list

\* the expected value of notebook n's test case; the hard-coded matrix for the
\* universality notebooks
ExpectedOf(n) ==
    IF n = "grad" THEN test_expected_grad
    ELSE IF n = "fid" THEN test_expected_fid
    ELSE IF n = "zne" THEN test_expected_zne
    ELSE IF n = "u3" THEN solution
    ELSE swap_solution

\* distances from a number v at, just inside and just outside the tolerance
Deltas(v, r) ==
    LET t == Abs(v) \div r
    IN  {0, t, t + 1, t + 2, -(t + 1), -(t + 2)}

Zeros(n) == [k \in 1..n |-> 0]

ListOutputs(n) ==
    LET e == ExpectedOf(n)
    IN  UNION {{[e EXCEPT ![k] = @ + dl] : dl \in Deltas(e[k], rtol_inv(n))} :
                  k \in {1, Len(e)}}
        \cup {<<e[1]>>, <<e[1] + 1>>, SubSeq(e, 1, Len(e) - 1), e \o <<e[1]>>,
              [k \in 1..Len(e) |-> e[1]], Zeros(Len(e)),
              [Zeros(Len(e)) EXCEPT ![1] = 1], [Zeros(Len(e)) EXCEPT ![1] = 2]}

ListExpected(n) ==
    {JsonText(ExpectedOf(n)), JsonText(<<ExpectedOf(n)[1]>>),
     JsonText(Zeros(Len(ExpectedOf(n)))), PlainText("No output")}

GateLists(n) ==
    IF n = "u3"
    THEN {<<"U3", "CNOT">>, <<"U3", "CNOT", "U3">>, <<"U3">>, <<"U3", "CNOT", "Hadamard">>}
    ELSE {<<"Hadamard", "CNOT", "T">>, <<"T", "T", "Hadamard", "CNOT">>,
          <<"Hadamard", "CNOT">>, <<"Hadamard", "CNOT", "T", "U3">>}

MatrixOutputs(n) ==
    LET e == ExpectedOf(n)
    IN  {[e EXCEPT ![0][0] = @ + dl] : dl \in Deltas(e[0][0], rtol_inv(n))}
        \cup {[r \in DOMAIN e |-> [c \in DOMAIN e |-> IF r = c THEN FxOne ELSE 0]]}
        \cup {[e EXCEPT ![1][3] = @ + dl] : dl \in {1, 2, -1, -2}}

CheckCases(n) ==
    IF n \in {"u3", "htc"}
    THEN {<<JsonText([matrix |-> mx, gates |-> g]), ex>> :
             mx \in MatrixOutputs(n), g \in GateLists(n),
             ex \in {PlainText("No output"),
                     JsonText([matrix |-> MatToFx(Identity(IF n = "u3" THEN 3 ELSE 2)),
                               gates |-> <<>>])}}
    ELSE {<<JsonText(o), ex>> : o \in ListOutputs(n), ex \in ListExpected(n)}

InitCheck ==
    /\ nb \in AllNotebooks
    /\ \E cs \in CheckCases(nb) :
          /\ output = cs[1]
          /\ test_cases = << <<PlainText("No input"), cs[2]>> >>
          /\ calls = <<Line(1, "run returned", cs[1])>>
    /\ ti = 1
    /\ dpc = "else"
    /\ matrix = <<>>
    /\ stdout = <<Line(1, "Running test case", PlainText("No input"))>>
    /\ uncaught = "none"
    /\ CircIdle
    /\ FidIdle
    /\ GradIdle
    /\ ZneIdle

NextCheck ==
    \/ DriverCheck
    \/ DriverDone

SpecCheck == InitCheck /\ [][NextCheck]_vars

(***************************************************************************)
(* Claims.                                                                 *)
(***************************************************************************)

\* C6: fidelities(probs) returns one value per element of probs, in the same
\* order, and the value for probability p is (1-p)^2 + p^2; in particular
\* 0.905, 0.82, 0.745, 0.68, 0.625 for p = 0.05, 0.1, 0.15, 0.2, 0.25.
C6_Value(p) == NRat((ProbDen - p) * (ProbDen - p) + p * p, ProbDen * ProbDen)

C6_Listed == <<905, 820, 745, 680, 625>>

C6_FidelitiesClosedForm ==
    /\ Len(fids) <= Len(probs)
    /\ fpc = "returned" => Len(fids) = Len(probs)
    /\ \A k \in 1..Len(fids) :
          /\ fids[k] = C6_Value(probs[k])
          /\ \A m \in 1..5 :
                probs[k] * 100 = 5 * m * ProbDen => fids[k] = NRat(C6_Listed[m], 1000)

C6_Witness ==
    /\ fpc = "returned"
    /\ Len(probs) = 5
    /\ \A k \in 1..5 : probs[k] * 100 = 5 * k * ProbDen
    /\ fids = [k \in 1..5 |-> NRat(C6_Listed[k], 1000)]

\* C7: bitflip_circuit(p) queues circuit's operations (Hadamard on wire 0,
\* CNOT on wires [0,1]) as a prefix, followed by exactly BitFlip(p) on wire 0
\* and BitFlip(p) on wire 1, and for p = 0 its state is circuit's state.
C7_BitflipExtendsCircuit ==
    (job.fn = "bitflip_circuit" /\ qpc # "queue") =>
        /\ circuit_bell = << [name |-> "Hadamard", wires |-> <<0>>, params |-> <<>>],
                             [name |-> "CNOT", wires |-> <<0, 1>>, params |-> <<>>] >>
        /\ Len(tape) = Len(circuit_bell) + 2
        /\ SubSeq(tape, 1, Len(circuit_bell)) = circuit_bell
        /\ tape[Len(circuit_bell) + 1] =
              [name |-> "BitFlip", wires |-> <<0>>, params |-> <<job.p>>]
        /\ tape[Len(circuit_bell) + 2] =
              [name |-> "BitFlip", wires |-> <<1>>, params |-> <<job.p>>]
        /\ (qpc = "done" /\ job.p = 0) => mat = MixedState(circuit_bell)

C7_Witness ==
    /\ CircDone("bitflip_circuit")
    /\ job.p = 0
    /\ kk = 4
    /\ mat = MixedState(circuit_bell)

\* C8: the matrix of the U3/CNOT circuit on wires [0,1,2] is block-diagonal
\* over (wire 0, wire 1), with block H = (1/sqrt2)[[1,1],[1,-1]] on wire 2 for
\* (0,0), (1,0), (1,1) and block -H for (0,1).
C8_Target ==
    [r \in 0..7 |-> [c \in 0..7 |->
        IF r \div 2 # c \div 2 THEN NZero
        ELSE IF r \div 2 = 1 THEN NNeg(HadamardMatrix[r % 2][c % 2])
        ELSE HadamardMatrix[r % 2][c % 2]]]

C8_MatrixIsTarget ==
    (CircDone("circuit_u3") /\ job.mode = "matrix") =>
        /\ WireOrder(job, tape) = <<0, 1, 2>>
        /\ mat = C8_Target

C8_Witness ==
    /\ CircDone("circuit_u3")
    /\ job.mode = "matrix"
    /\ kk = 8
    /\ mat[2][3] = NNeg(NInvSqrt2)
    /\ mat[3][3] = NInvSqrt2

\* C9: the operations recorded from the U3/CNOT circuit are named U3 or CNOT
\* only, and both names occur.
C9_GateNames ==
    job.fn = "circuit_u3" =>
        /\ \A k \in 1..Len(tape) : tape[k].name \in {"U3", "CNOT"}
        /\ qpc # "queue" => {tape[k].name : k \in 1..Len(tape)} = {"U3", "CNOT"}

C9_Witness ==
    /\ job.fn = "circuit_u3"
    /\ qpc = "apply"
    /\ Len(tape) = 8
    /\ \E k \in 1..8 : tape[k].name = "CNOT"

\* C10: the H/T/CNOT notebook's full circuit has exactly the SWAP matrix: it
\* maps every basis state |a>|b> to |b>|a>, with amplitude exactly 1.
C10_CircuitIsSwap ==
    CircDone("circuit_htc") =>
        \A a \in 0..1, b \in 0..1, r \in 0..3 :
            mat[r][2 * a + b] = IF r = 2 * b + a THEN NOne ELSE NZero

C10_Witness ==
    /\ CircDone("circuit_htc")
    /\ kk = Len(circuit_htc)
    /\ kk = 80
    /\ mat[1][2] = NOne

\* C4: my_parameter_shift_grad(params) returns a list as long as params whose
\* i-th entry is c1*[f(theta + s1 e_i) - f(theta - s1 e_i)]
\* - c2*[f(theta + s2 e_i) - f(theta - s2 e_i)] rounded to 5 decimals, f being
\* circuit, theta the list as given, and (s1, s2), (c1, c2) the shifts and
\* coefficients of shifts_and_coeffs.
C4_Term(theta, i, s, c) ==
    FxMul(circuit_grad(Shifted(theta, i, s)) - circuit_grad(Shifted(theta, i, -s)), c)

C4_Entry(theta, i) ==
    Round5(C4_Term(theta, i, shifts_and_coeffs[1][1], shifts_and_coeffs[2][1])
           - C4_Term(theta, i, shifts_and_coeffs[1][2], shifts_and_coeffs[2][2]))

C4_GradientFormula ==
    gpc = "returned" =>
        /\ Len(result) = Len(params0)
        /\ \A i \in 1..Len(params0) : result[i] = C4_Entry(params0, i)

C4_Witness ==
    /\ gpc = "returned"
    /\ params0 = <<Angle(0, 1), Angle(3, 0), Angle(0, 2)>>
    /\ Len(result) = 3
    /\ result[1] # 0
    /\ result[2] # 0
    /\ result[3] # 0

\* C5: the four-term rule with shifts (pi/2, 3pi/2) and coefficients
\* ((sqrt2+1)/(4 sqrt2), (sqrt2-1)/(4 sqrt2)) yields the analytic gradient of
\* circuit with respect to each of the CRX, CRY and CRZ angles, and for params
\* [1.23, 0.6, 4.56] the output matches [0.08144, -0.33706, -0.37944] within
\* relative tolerance 1e-4.
\* (-i/2) times the Pauli matrix generating gate number i
C5_Generator(i) ==
    IF i = 1 THEN << <<CZero, (<<0, -(FxOne \div 2)>>)>>,
                     <<(<<0, -(FxOne \div 2)>>), CZero>> >>
    ELSE IF i = 2 THEN << <<CZero, (<<-(FxOne \div 2), 0>>)>>,
                          <<(<<FxOne \div 2, 0>>), CZero>> >>
    ELSE << <<(<<0, -(FxOne \div 2)>>), CZero>>,
            <<CZero, (<<0, FxOne \div 2>>)>> >>

\* the derivative of the prepared state with respect to angle i
C5_StateDerivative(ps, i) ==
    LET s1 == CRX(BroadcastHadamard(ZeroState), ps[1], <<1, 2>>)
        d1 == IF i = 1 THEN ApplyGate(s1, C5_Generator(1), 2, 1, FALSE) ELSE s1
        s2 == CRY(d1, ps[2], <<0, 1>>)
        d2 == IF i = 2 THEN ApplyGate(s2, C5_Generator(2), 1, 0, FALSE) ELSE s2
        s3 == CRZ(d2, ps[3], <<2, 0>>)
    IN  IF i = 3 THEN ApplyGate(s3, C5_Generator(3), 0, 2, FALSE) ELSE s3

\* d circuit / d params[i], in units of 1e-8
C5_Analytic(ps, i) ==
    IF i > 3 THEN 0
    ELSE 2 * Inner(circuit_grad_state(ps), Observable(C5_StateDerivative(ps, i)))[1]

\* half a unit of the fifth decimal, and the arithmetic's own error
C5_Slack == 500 + 20

C5_ExactGradient ==
    /\ shifts_and_coeffs = << <<1, 3>>, <<FxCoeff1, FxCoeff2>> >>
    /\ (gpc = "returned" /\ Len(params0) >= 3) =>
          /\ \A i \in 1..Len(params0) :
                Abs(result[i] * 1000 - C5_Analytic(params0, i)) <= C5_Slack
          /\ params0 = test_params =>
                allclose([k \in 1..Len(result) |-> result[k] * 1000],
                         test_expected_grad, rtol_inv_list).value = TRUE

C5_Witness ==
    /\ gpc = "returned"
    /\ params0 = test_params
    /\ result = <<8144, -33706, -37944>>
    /\ Len(evals) = 12

(***************************************************************************)
(* Claims about the driver loop.                                           *)
(***************************************************************************)
Printed(c, k) == \E n \in 1..Len(stdout) : stdout[n].case = c /\ stdout[n].kind = k
Called(c, k) == \E n \in 1..Len(calls) : calls[n].case = c /\ calls[n].kind = k

\* the else clause of test case c has been executed
Checked(c) == Called(c, "check raised") \/ Called(c, "check returned")

\* run returned for test case c and an assertion of check fails on its output
Mismatch(c) ==
    \E n \in 1..Len(calls) :
        /\ calls[n].case = c
        /\ calls[n].kind = "run returned"
        /\ check(nb, calls[n].arg, test_cases[c][2]).exc = "AssertionError"

\* C1: when run returns normally but check finds that the output does not
\* match the expected value within tolerance, the driver prints a
\* 'Wrong Answer. Have: ... Want: ...' line for that test case and does not
\* print 'Correct!'.
C1_WrongAnswerPrinted ==
    \A c \in 1..Len(test_cases) :
        (Mismatch(c) /\ Checked(c)) =>
            /\ Printed(c, "Wrong Answer.")
            /\ ~Printed(c, "Correct!")

\* what the loop does on a mismatch: the AssertionError leaves the loop, no
\* verdict line is printed for the test case and no later test case is run
C1_MismatchAborts ==
    \A c \in 1..Len(test_cases) :
        (Mismatch(c) /\ Checked(c)) =>
            /\ dpc = "aborted"
            /\ uncaught = "AssertionError"
            /\ ti = c
            /\ ~Printed(c, "Wrong Answer.")
            /\ ~Printed(c, "Correct!")

C1_Witness ==
    /\ nb = "grad"
    /\ Len(test_cases) = 2
    /\ Mismatch(1)
    /\ Checked(1)
    /\ dpc = "aborted"

\* C2: if run raises any Exception for a test case, the driver prints
\* 'Runtime Error. <exc>' for that test case, does not call check, prints
\* neither 'Correct!' nor 'Wrong Answer' for it, and goes on to the next test
\* case.
C2_RuntimeErrorHandled ==
    \A c \in 1..Len(test_cases) :
        Called(c, "run raised") =>
            /\ \E n \in 1..Len(stdout), m \in 1..Len(calls) :
                  /\ stdout[n].case = c
                  /\ stdout[n].kind = "Runtime Error."
                  /\ calls[m].case = c
                  /\ calls[m].kind = "run raised"
                  /\ stdout[n].arg = calls[m].arg
            /\ ~Checked(c)
            /\ ~Called(c, "run returned")
            /\ ~Printed(c, "Correct!")
            /\ ~Printed(c, "Wrong Answer.")
            /\ ti > c
            /\ (ti = c + 1 => dpc # "aborted" \/ Checked(ti))
            /\ (c < Len(test_cases) /\ (ti > c + 1 \/ dpc # "for")) =>
                  Printed(c + 1, "Running test case")

C2_Witness ==
    /\ Len(test_cases) = 2
    /\ Called(1, "run raised")
    /\ Printed(1, "Runtime Error.")
    /\ Printed(2, "Running test case")
    /\ Printed(2, "Correct!")

\* C3: 'Correct!' is printed for a test case only if run returned for that
\* test case without raising and every assertion in check held (check
\* returned a falsy value); 'Correct!' is never printed after a
\* 'Runtime Error.' line for the same test case.
C3_CorrectOnlyIfChecked ==
    \A c \in 1..Len(test_cases) :
        Printed(c, "Correct!") =>
            /\ ~Called(c, "run raised")
            /\ \E n \in 1..Len(calls) :
                  /\ calls[n].case = c
                  /\ calls[n].kind = "run returned"
                  /\ ~check(nb, calls[n].arg, test_cases[c][2]).raised
                  /\ check(nb, calls[n].arg, test_cases[c][2]).value = "None"
            /\ ~Printed(c, "Runtime Error.")

C3_Witness ==
    /\ nb = "htc"
    /\ Len(test_cases) = 2
    /\ Printed(1, "Correct!")
    /\ Printed(2, "Correct!")
    /\ dpc = "done"

(***************************************************************************)
(* Claims about the ZNE notebook.                                          *)
(***************************************************************************)
\* n * m in two words, n * m = hi * FxBase + lo
C11_Wide(n, m) == <<(n \div FxBase) * m, (n % FxBase) * m>>
C11_Norm(w) == <<w[1] + w[2] \div FxBase, w[2] % FxBase>>
C11_Sum(u, v, w) == <<u[1] + v[1] + w[1], u[2] + v[2] + w[2]>>

\* the fitted quadratic takes the value ys[k] at xs[k]: with coefficients
\* n1/d1, n2/d2, n3/d3, n1 x^2 d2 d3 + n2 x d1 d3 + n3 d1 d2 = y d1 d2 d3
C11_Through(xs, ys, k) ==
    LET cf == polyfit(xs, ys)
    IN  C11_Norm(C11_Sum(C11_Wide(cf[1][1], xs[k] * xs[k] * cf[2][2] * cf[3][2]),
                         C11_Wide(cf[2][1], xs[k] * cf[1][2] * cf[3][2]),
                         C11_Wide(cf[3][1], cf[1][2] * cf[2][2])))
        = C11_Norm(C11_Wide(ys[k], cf[1][2] * cf[2][2] * cf[3][2]))

\* C11: zne_energy is the value at scale factor 0 of the second-degree
\* polynomial fitted to the points (scale_factors[k], mitigated_energies[k]);
\* for three distinct scale factors the fitted polynomial passes through all
\* three points, so for scale_factors [1, 2, 3] with energies E1, E2, E3 the
\* result is 3*E1 - 3*E2 + E3.
C11_ZneIsFitAtZero ==
    zpc = "returned" =>
        /\ Len(mitigated_energies) = Len(scale_factors)
        /\ Len(energies) = 2
        /\ energies[2] = CoeffValue(polyfit(scale_factors, mitigated_energies)[3])
        /\ Len(scale_factors) = 3 =>
              \A k \in 1..3 : C11_Through(scale_factors, mitigated_energies, k)
        /\ scale_factors = <<1, 2, 3>> =>
              energies[2] = 3 * mitigated_energies[1] - 3 * mitigated_energies[2]
                            + mitigated_energies[3]

C11_Witness ==
    /\ zpc = "returned"
    /\ scale_factors = <<1, 2, 3>>
    /\ polyfit(scale_factors, mitigated_energies)[1][1] # 0
    /\ polyfit(scale_factors, mitigated_energies)[2][1] # 0
    /\ energies[2] # mitigated_energies[1]
    /\ energies[2] = 3 * mitigated_energies[1] - 3 * mitigated_energies[2]
                     + mitigated_energies[3]

\* a VQE routine on its own: num_iters steps from param 0.0, then the energy
RECURSIVE C15_Descend(_, _, _)
C15_Descend(q, x, n) == IF n = 0 THEN x ELSE C15_Descend(q, opt_step(q, x), n - 1)

C15_VQE(q) == Energy(q, C15_Descend(q, 0, num_iters))

\* C15: extrapolation runs exactly 1 + len(scale_factors) VQE routines, the
\* ideal one first and then the mitigated ones in scale-factor order, and
\* each routine starts from its own fresh parameter 0.0 and fresh optimizer,
\* so no routine's result depends on a parameter left by another routine.
C15_RoutinesIndependent ==
    /\ Len(routines) <= 1 + Len(scale_factors)
    /\ \A k \in 1..Len(routines) : routines[k] = [qnode |-> k, param |-> 0]
    /\ zpc \in {"vqe", "loop", "fit", "returned"} =>
          /\ qnodes[1] = IdealQnode(distance)
          /\ \A k \in 1..Len(scale_factors) :
                qnodes[1 + k] = MitigatedQnode(distance, scale_factors[k])
    /\ zpc \in {"fit", "returned"} =>
          /\ Len(routines) = 1 + Len(scale_factors)
          /\ ideal_energy = Round6(C15_VQE(IdealQnode(distance)))
          /\ Len(mitigated_energies) = Len(scale_factors)
          /\ \A k \in 1..Len(scale_factors) :
                mitigated_energies[k]
                    = C15_VQE(MitigatedQnode(distance, scale_factors[k]))

C15_Witness ==
    /\ zpc = "returned"
    /\ Len(scale_factors) = 4
    /\ Len(routines) = 5
    /\ param # 0
    /\ mitigated_energies[1] # mitigated_energies[4]

(***************************************************************************)
(* Claims about check.                                                     *)
(***************************************************************************)
\* 'Correct!' was printed for test case c
Accepted(c) == Printed(c, "Correct!")

\* the string run returned for test case c
OutputOf(c) ==
    (CHOOSE ln \in {calls[n] : n \in 1..Len(calls)} :
        ln.case = c /\ ln.kind = "run returned").arg

\* the index pairs numpy compares in two lists it can broadcast together
CanBroadcast(a, b) == Len(a) = Len(b) \/ Len(a) = 1 \/ Len(b) = 1

BroadcastPairs(a, b) ==
    IF Len(a) = Len(b) THEN {<<k, k>> : k \in 1..Len(a)}
    ELSE IF Len(b) = 1 THEN {<<k, 1>> : k \in 1..Len(a)}
    ELSE {<<1, k>> : k \in 1..Len(b)}

\* |x - y| <= rtol * |y|, and with numpy's absolute tolerance of 1e-8 added
WithinRelative(x, y, r) == Abs(x - y) <= Abs(y) \div r
WithinTolerance(x, y, r) == Abs(x - y) <= 1 + Abs(y) \div r

ListWithin(a, b, r) ==
    /\ CanBroadcast(a, b)
    /\ \A pr \in BroadcastPairs(a, b) : WithinTolerance(a[pr[1]], b[pr[2]], r)

MatrixWithin(A, B, r) ==
    \A i \in DOMAIN B : \A j \in DOMAIN B : WithinTolerance(A[i][j], B[i][j], r)

GatesRequired(n) == IF n = "u3" THEN {"U3", "CNOT"} ELSE {"Hadamard", "CNOT", "T"}

GatesOf(str) == {str.value.gates[k] : k \in 1..Len(str.value.gates)}

\* the statement of C12 as the specification has it, for every notebook
C12_ExpectedDecides ==
    \A c \in 1..Len(test_cases) :
        Accepted(c) =>
            /\ test_cases[c][2].kind = "json"
            /\ IF nb \in {"u3", "htc"}
               THEN MatrixWithin(OutputOf(c).value.matrix,
                                 test_cases[c][2].value.matrix, rtol_inv(nb))
               ELSE ListWithin(OutputOf(c).value, test_cases[c][2].value, rtol_inv(nb))

\* C12: in the gradient, fidelity and ZNE notebooks check decides the verdict
\* by comparing the run output against the test case's expected-output string
\* parsed as JSON: a test case whose expected string differs from the run
\* output by more than the tolerance is not accepted.  In the two universality
\* notebooks check does not read the expected-output string: the verdict is
\* decided by the matrix and the gate names hard-coded in check.
C12_ExpectedDecidesInListNotebooks ==
    \A c \in 1..Len(test_cases) :
        IF nb \in {"u3", "htc"}
        THEN Checked(c) =>
                (Accepted(c) <=>
                    /\ MatrixWithin(OutputOf(c).value.matrix, ExpectedOf(nb), rtol_inv(nb))
                    /\ GatesOf(OutputOf(c)) = GatesRequired(nb))
        ELSE Accepted(c) =>
                /\ test_cases[c][2].kind = "json"
                /\ ListWithin(OutputOf(c).value, test_cases[c][2].value, rtol_inv(nb))

C12_Witness ==
    /\ nb = "grad"
    /\ test_cases[1][2] = JsonText(test_expected_grad)
    /\ Called(1, "check raised")
    /\ uncaught = "AssertionError"
    /\ ~Accepted(1)
    /\ ~ListWithin(OutputOf(1).value, test_expected_grad, rtol_inv(nb))

\* the statement of C13 as the specification has it: equal numbers of elements
\* and a purely relative tolerance
C13_RelativeOnly ==
    \A c \in 1..Len(test_cases) :
        Checked(c) =>
            (Accepted(c) <=>
                IF nb \in {"u3", "htc"}
                THEN \A i \in DOMAIN ExpectedOf(nb) : \A j \in DOMAIN ExpectedOf(nb) :
                        WithinRelative(OutputOf(c).value.matrix[i][j],
                                       ExpectedOf(nb)[i][j], rtol_inv(nb))
                ELSE /\ test_cases[c][2].kind = "json"
                     /\ Len(OutputOf(c).value) = Len(test_cases[c][2].value)
                     /\ \A k \in 1..Len(OutputOf(c).value) :
                           WithinRelative(OutputOf(c).value[k],
                                          test_cases[c][2].value[k], rtol_inv(nb)))

\* 1/rtol as the notebooks state it: 1e-4, 1e-2, 1e-5
C13_InverseRtol(n) ==
    IF n \in {"grad", "fid"} THEN 100 * 100
    ELSE IF n = "zne" THEN 100
    ELSE 100 * 1000

\* C13: check accepts an output exactly when its shape can be broadcast
\* against the expected value (equal numbers of elements, or one of the two a
\* single element) and every element differs from the corresponding expected
\* element by at most 1e-8 plus the notebook's relative tolerance times the
\* magnitude of the expected element (1e-4 gradient and fidelity, 1e-2 ZNE,
\* 1e-5 universality); in the universality notebooks the expected value is
\* the matrix in check and the gate names must also be the required ones.
C13_AcceptsWithinTolerance ==
    \A c \in 1..Len(test_cases) :
        Checked(c) =>
            (Accepted(c) <=>
                IF nb \in {"u3", "htc"}
                THEN /\ MatrixWithin(OutputOf(c).value.matrix, ExpectedOf(nb),
                                     C13_InverseRtol(nb))
                     /\ GatesOf(OutputOf(c)) = GatesRequired(nb)
                ELSE /\ test_cases[c][2].kind = "json"
                     /\ ListWithin(OutputOf(c).value, test_cases[c][2].value,
                                   C13_InverseRtol(nb)))

C13_Witness ==
    /\ nb = "zne"
    /\ Accepted(1)
    /\ test_cases[1][2] = JsonText(test_expected_zne)
    /\ ~WithinRelative(OutputOf(1).value[1], test_expected_zne[1], 100)
    /\ WithinTolerance(OutputOf(1).value[1], test_expected_zne[1], 100)

(***************************************************************************)
(* Claims about the in-place shifts of params.                             *)
(***************************************************************************)
\* x - y in units of 2^-53, for floats a few units apart (else a large number)
C14_Off(x, y) ==
    LET df == F64Exact(x, F64Neg(y))
    IN  IF df[1] = 0 THEN df[2]
        ELSE IF df[1] = -1 THEN df[2] - F64Base
        ELSE F64Base

\* the index and the step (0..3) of circuit call number n (counted from 1)
C14_Index(n) == (n - 1) \div 4 + 1
C14_Step(n) == (n - 1) % 4

\* the displacement at step m: +s1, -s1, +s2, -s2
C14_Displacement(m) ==
    IF m = 0 THEN shifts_f64[1]
    ELSE IF m = 1 THEN F64Neg(shifts_f64[1])
    ELSE IF m = 2 THEN shifts_f64[2]
    ELSE F64Neg(shifts_f64[2])

C14_Rounding == 6 * 8

\* What the code does about C14: four evaluations of circuit per index, with
\* component i displaced by +s1, -s1, +s2, -s2 in that order and the
\* components not yet visited holding their original values exactly; the
\* displaced value, the components already visited, and params after each
\* index and on return equal the values C14 names only up to the rounding
\* error of the float additions (half a unit in the last place per addition).
C14_ParamsRestoredUpToRounding ==
    LET orig == F64List(params0)
    IN  /\ \A n \in 1..Len(fevals) :
              /\ C14_Index(n) <= Len(orig)
              /\ \A j \in 1..Len(orig) :
                    IF j = C14_Index(n)
                    THEN Abs(C14_Off(fevals[n][j],
                                     F64Exact(orig[j], C14_Displacement(C14_Step(n)))))
                            <= C14_Rounding
                    ELSE IF j > C14_Index(n) THEN fevals[n][j] = orig[j]
                    ELSE Abs(C14_Off(fevals[n][j], orig[j])) <= C14_Rounding
        /\ \A n \in 1..Len(evals) :
              evals[n] = Shifted(params0, C14_Index(n),
                                 IF C14_Step(n) = 0 THEN shifts[1]
                                 ELSE IF C14_Step(n) = 1 THEN -shifts[1]
                                 ELSE IF C14_Step(n) = 2 THEN shifts[2]
                                 ELSE -shifts[2])
        /\ Len(fevals) = Len(evals)
        /\ gpc \in {"loop", "returned"} =>
              /\ Len(fparams) = Len(orig)
              /\ \A j \in 1..Len(orig) : Abs(C14_Off(fparams[j], orig[j])) <= C14_Rounding
              /\ params = params0
        /\ gpc = "returned" => Len(fevals) = 4 * Len(orig)

\* the test case of the notebook has run: params is left 4, -3 and 8 units
\* of 2^-53 away from the caller's values
C14_Drifted ==
    /\ gpc = "returned"
    /\ params0 = test_params
    /\ Len(fevals) = 12
    /\ C14_Off(fparams[1], F64Of(params0[1])) = 4
    /\ C14_Off(fparams[2], F64Of(params0[2])) = -3
    /\ C14_Off(fparams[3], F64Of(params0[3])) = 8

(***************************************************************************)
(* Claims about the fidelity as a function of the bitflip probability.     *)
(***************************************************************************)
\* C16: for every bitflip probability p in [0,1], the fidelity between
\* bitflip_circuit(p) and the noise-free circuit lies in [1/2, 1], equals 1
\* at p = 0, takes the same value at p and 1-p, and is smallest (1/2) at
\* p = 1/2.
C16_FidelityRangeAndSymmetry ==
    \A k \in 1..Len(fids) :
        /\ fids[k][2] = 0 /\ fids[k][3] = 0 /\ fids[k][4] = 0
        /\ 2 * fids[k][1] >= fids[k][5]
        /\ fids[k][1] <= fids[k][5]
        /\ probs[k] = 0 => fids[k] = NOne
        /\ fids[k] = fidelity_of(ProbDen - probs[k])
        /\ \A j \in 1..Len(fids) : probs[j] = ProbDen - probs[k] => fids[j] = fids[k]
        /\ 2 * fids[k][1] = fids[k][5] <=> 2 * probs[k] = ProbDen

C16_Witness ==
    /\ fpc = "returned"
    /\ Len(probs) = 2
    /\ probs[1] + probs[2] = ProbDen
    /\ probs[1] < probs[2]
    /\ probs[1] > 0
    /\ fids[1] = fids[2]
    /\ fids[1] # NOne
    /\ fidelity_of(ProbDen \div 2) = NRat(1, 2)

====
